---------------------------- MODULE Spec2Model ----------------------------
(***************************************************************************)
(* A model of the viewcam video wall: src/multiplecam.py (the group        *)
(* window, its tile layout, its stream monitoring and its area-count       *)
(* tracker), src/department_mapping.py (the location directory) and        *)
(* src/realtime_area_counts.py (the console tracker).                      *)
(*                                                                         *)
(* Conventions.                                                            *)
(*  - A Python list is a TLA+ sequence: Python index i is TLA+ index i+1.  *)
(*  - A Python value whose type matters to the code (a payload field) is a *)
(*    record tagged with its type; see the "Python values" section.        *)
(*  - Area names are written without diacritics.                           *)
(*  - Time is counted in ticks; Resolution ticks make one time unit (one    *)
(*    second of time.time()).                                              *)
(***************************************************************************)
EXTENDS Integers, Sequences, FiniteSets, TLC

VARIABLES
    \* ---- compute_boundaries under test (pure function) ----
    total_pixels,       \* argument total_pixels
    segments,           \* argument segments
    boundaries,         \* the returned list, <<>> before the call
    \* ---- AreaCountTracker (self.area_tracker of the group window) ----
    dept_counts,        \* self.dept_counts: an insertion-ordered dict, as a
                        \* sequence of [key, value] entries with distinct keys
    last_update_time,   \* self.last_update_time: None or the time of the update
    \* ---- CustomLayoutWindow (one group window) ----
    cams_arg,           \* the argument cams of __init__: the cameras given
    cams,               \* self.cams: the group's cameras, at most 6
    group_name,         \* self.group_name: the group's area
    frames,             \* self.frames: per frame its camera (or None for a
                        \* black tile) and the geometry of its QFrame
    players,            \* self.players: per frame a player or None; <<>>
                        \* until the first layout pass
    last_play_attempts, \* self.last_play_attempts
    tile_map,           \* self.tile_map: slot -> <<xs, ys, xe, ye>>
    panel_visible,      \* self.panel_visible
    panel_geometry,     \* the geometry of self.area_panel
    area_items,         \* the widgets of self.area_layout before its stretch
    screen,             \* screen.geometry(): <<width, height>>
    \* ---- the UI thread's timer queue (QtCore.QTimer.singleShot) ----
    pending_update,     \* posted, not yet run calls of _update_area_panel
    pending_layout,     \* posted, not yet run calls of _layout_and_attach
    next_tick,          \* when self.monitor_timer fires next
    closed,             \* closeEvent has run
    socket_connected,   \* self.socket_client is connected
    \* ---- get_area_counts in progress on the UI thread ----
    reader,             \* the dict iterator of the loop and the totals so far
    \* ---- the clock ----
    now,                \* time.time(), in time units
    \* ---- history variables (not program state) ----
    applied,            \* per location key, the counts of the last event the
                        \* handler applied for it
    last_event,         \* what the last delivered event was and did
    accepted,           \* per location key, the last event the handler
                        \* applied for it
    last_refresh,       \* how the last call of _update_area_panel ended:
                        \* "none", "returned" or "raised"
    conn,               \* per frame, the last connect attempt made for it
    last_call,          \* the last call of _start_playback made from outside
    in_flight,          \* per frame, the attempts begun by play() that have
                        \* neither completed nor been stopped
    shutdown,           \* what the calls of closeEvent did so far
    \* ---- realtime_area_counts.py (the console program) ----
    console,            \* its tracker's dept_counts, what the terminal shows
                        \* and the thread that wrote it
    \* ---- main() of multiplecam.py ----
    CAM_LIST,           \* the camera source list main() loaded
    cam_groups,         \* the dict area -> cameras main() built
    windows,            \* the group windows main() constructed, in order
    main_status,        \* "not_run", "exit_1" or "running"
    \* ---- a SocketClient of hooks/use_socket.py ----
    client,             \* its room_id, username, event_name and is_connected,
                        \* the messages it emitted, and its last call
    read_log            \* the tracker before and after the event applied
                        \* during the last read, and what the read returned

partVars == <<total_pixels, segments, boundaries>>
trackerVars == <<dept_counts, last_update_time>>
configVars == <<cams_arg, cams, group_name, tile_map>>
panelVars == <<area_items>>
mainVars == <<CAM_LIST, cam_groups, windows, main_status>>
sideVars == <<console, mainVars, client>>
layoutVars == <<frames, panel_visible, panel_geometry, screen>>
streamVars == <<players, last_play_attempts>>
queueVars == <<pending_update, pending_layout>>
histVars == <<applied, last_event, accepted, last_refresh>>
lifeVars == <<next_tick, closed, socket_connected, shutdown>>
attemptVars == <<conn, last_call, in_flight>>
readVars == <<reader, read_log>>

vars == <<partVars, trackerVars, configVars, panelVars, sideVars, layoutVars, streamVars,
          queueVars, now, histVars, lifeVars, attemptVars, readVars>>

(***************************************************************************)
(* Bounds of the model.                                                    *)
(***************************************************************************)
MaxPixels == 24
MaxSegments == 4
\* The most calls of one kind the timer queue holds at a time.
MaxPending == 1
\* Ticks per time unit.
Resolution == 2
\* time.time() when the group window is constructed, in ticks.
StartTime == 20
\* The time units the clock runs on for after the construction.
Horizon == 8
EndTime == StartTime + Horizon * Resolution

\* Pixel spans of real displays, beside the small ones.
SamplePixels == {1080, 1535, 1536, 1920}

(***************************************************************************)
(* compute_boundaries                                                      *)
(***************************************************************************)

\* Python's round(n / d) for integers n and d > 0: the quotient is rounded to
\* the nearest integer, a tie going to the even neighbour.  (n / d is a float
\* division; for the pixel counts of a display it is exact enough that the
\* nearest integer of the float is the nearest integer of the fraction.)
\* \div rounds towards minus infinity and % is non-negative, so q + r/d is
\* the exact quotient for negative n as well.
py_round_div(n, d) ==
    LET q == n \div d
        r == n % d
    IN  IF 2 * r < d THEN q
        ELSE IF 2 * r > d THEN q + 1
        ELSE IF q % 2 = 0 THEN q ELSE q + 1

\* A rounding leak: every segment gets the truncated width, the remainder is
\* lost at the right edge.
compute_boundaries_leak(total, segs) ==
    [k \in 1..(segs + 1) |-> (k - 1) * (total \div segs)]

\* A partition of equal floored widths whose last segment takes the rest.
compute_boundaries_tail(total, segs) ==
    [k \in 1..(segs + 1) |->
        IF k = segs + 1 THEN total ELSE (k - 1) * (total \div segs)]

\* [int(round(i * total_pixels / segments)) for i in range(segments + 1)]
compute_boundaries(total, segs) ==
    [k \in 1..(segs + 1) |-> py_round_div((k - 1) * total, segs)]

(***************************************************************************)
(* Python values.  A value whose type the code depends on is a record      *)
(* tagged with its type; each type keeps its content in a field of its     *)
(* own.  A str that is a JSON text is described by what json.loads makes   *)
(* of it: wf says whether it parses, doc is the parsed document.           *)
(***************************************************************************)
PyNone == [t |-> "none"]
PyStr(s) == [t |-> "str", s |-> s]
PyInt(n) == [t |-> "int", n |-> n]
PyList(l) == [t |-> "list", l |-> l]
PyDict(d) == [t |-> "dict", d |-> d]
PyJson(wf, doc) == [t |-> "json", wf |-> wf, doc |-> doc]

EmptyDict == [k \in {} |-> PyNone]

\* bool(x)
truthy(x) ==
    CASE x.t = "none" -> FALSE
      [] x.t = "str"  -> x.s # ""
      [] x.t = "int"  -> x.n # 0
      [] x.t = "list" -> x.l # <<>>
      [] x.t = "dict" -> DOMAIN x.d # {}
      [] x.t = "json" -> TRUE

\* d.get(k, default) of a dict d
dict_get(x, k, default) == IF k \in DOMAIN x.d THEN x.d[k] ELSE default

\* Whether x can be a dict key (hash(x) does not raise).
hashable(x) == x.t \in {"none", "str", "int", "json"}

\* json.loads(text): the document, or JSONDecodeError.
json_loads(x) ==
    IF x.wf THEN [ok |-> TRUE, value |-> x.doc]
    ELSE [ok |-> FALSE, value |-> PyNone]

Min(a, b) == IF a <= b THEN a ELSE b
Max(a, b) == IF a >= b THEN a ELSE b

(***************************************************************************)
(* Insertion-ordered dicts (self.dept_counts): a sequence of entries       *)
(* [key, value] with distinct keys.                                        *)
(***************************************************************************)
odict_keys(od) == {od[i].key : i \in 1..Len(od)}
odict_index(od, k) == CHOOSE i \in 1..Len(od) : od[i].key = k
odict_at(od, k) == od[odict_index(od, k)].value
\* od[k] = v: a present key keeps its place, a new key goes last.
odict_set(od, k, v) ==
    IF k \in odict_keys(od)
    THEN [od EXCEPT ![odict_index(od, k)] = [key |-> k, value |-> v]]
    ELSE Append(od, [key |-> k, value |-> v])

(***************************************************************************)
(* department_mapping.py: the location directory.                          *)
(***************************************************************************)
DEPARTMENT_MAPPING ==
       ("68c7d0345ae9e9e13020dbb8" :> [name |-> "Kiem soat an ninh", area |-> "KHU VUC KSAN"])
    @@ ("690583e4d2739e469f4efba4" :> [name |-> "Buong giam 01", area |-> "KHU VUC BUONG GIAM"])
    @@ ("68c7c559e6824a87950bc084" :> [name |-> "Buong giam 02", area |-> "KHU VUC BUONG GIAM"])
    @@ ("68c7be7b1d4a863510d396ee" :> [name |-> "Hang rao 01", area |-> "KHU VUC HANG RAO"])
    @@ ("68c7c5b5b24a5bb09d737226" :> [name |-> "Hang rao 02", area |-> "KHU VUC HANG RAO"])
    @@ ("68c7c0605ae9e9e13020db7c" :> [name |-> "Cong trai 01", area |-> "KHU VUC CONG TRAI"])
    @@ ("68c7bf4f3387f32b37ff83ac" :> [name |-> "Cong trai 02", area |-> "KHU VUC CONG TRAI"])
    @@ ("69143609a0dd9986d5defb20" :> [name |-> "Lao dong", area |-> "KHU VUC LAO DONG"])
    @@ ("6913075f8387ea258f4c9671" :> [name |-> "Ra vao 01", area |-> "KHU VUC KIEM SOAT RA VAO"])
    @@ ("691307314d6dcb1f5b061537" :> [name |-> "Ra vao 02", area |-> "KHU VUC KIEM SOAT RA VAO"])

\* DEPARTMENT_MAPPING.get(department_id, {}): the entry, or the empty dict.
get_department_info(department_id) ==
    IF department_id.t = "str" /\ department_id.s \in DOMAIN DEPARTMENT_MAPPING
    THEN DEPARTMENT_MAPPING[department_id.s]
    ELSE <<>>

\* The imports of hooks.use_socket and department_mapping succeeded.
SOCKET_AVAILABLE == TRUE

(***************************************************************************)
(* AreaCountTracker                                                        *)
(***************************************************************************)

\* The characters of department_id[:8].
KeyPrefixLen == 8

\* A snapshot that adds the counts of the event to the counts held for the
\* location instead of replacing them.
new_snapshot_adding(dc, department_id, data_count, list_person) ==
    LET old(c) == IF department_id \in odict_keys(dc)
                  THEN odict_at(dc, department_id)[c].n ELSE 0
    IN  [prisoner |-> PyInt(old("prisoner") + dict_get(data_count, "prisoner", PyInt(0)).n),
         officer |-> PyInt(old("officer") + dict_get(data_count, "officer", PyInt(0)).n),
         relative |-> PyInt(old("relative") + dict_get(data_count, "relative", PyInt(0)).n),
         list_person |-> IF truthy(list_person) THEN list_person ELSE PyList(<<>>)]

\* The dict update_counts stores for the location: the three counters of
\* data_count, 0 for a missing one, and the persons.
new_snapshot(dc, department_id, data_count, list_person) ==
    [prisoner |-> dict_get(data_count, "prisoner", PyInt(0)),
     officer |-> dict_get(data_count, "officer", PyInt(0)),
     relative |-> dict_get(data_count, "relative", PyInt(0)),
     list_person |-> IF truthy(list_person) THEN list_person ELSE PyList(<<>>)]

\* An update that leaves the snapshot of a key that has one as it is.
update_counts_keep_first(dc, department_id, data_count, list_person) ==
    IF ~truthy(data_count)
    THEN [raised |-> FALSE, stamped |-> TRUE, dept_counts |-> dc]
    ELSE IF data_count.t # "dict" \/ ~hashable(department_id)
    THEN [raised |-> TRUE, stamped |-> FALSE, dept_counts |-> dc]
    ELSE [raised |-> FALSE, stamped |-> TRUE,
          dept_counts |-> IF department_id \in odict_keys(dc) THEN dc
                          ELSE odict_set(dc, department_id,
                                  new_snapshot(dc, department_id, data_count, list_person))]

\* An update that holds the snapshot of the latest location only.
update_counts_latest_only(dc, department_id, data_count, list_person) ==
    IF ~truthy(data_count)
    THEN [raised |-> FALSE, stamped |-> TRUE, dept_counts |-> dc]
    ELSE IF data_count.t # "dict" \/ ~hashable(department_id)
    THEN [raised |-> TRUE, stamped |-> FALSE, dept_counts |-> dc]
    ELSE [raised |-> FALSE, stamped |-> TRUE,
          dept_counts |-> <<[key |-> department_id,
                             value |-> new_snapshot(dc, department_id, data_count,
                                                    list_person)]>>]

\* An update that also empties the persons of every other location.
update_counts_clearing(dc, department_id, data_count, list_person) ==
    IF ~truthy(data_count)
    THEN [raised |-> FALSE, stamped |-> TRUE, dept_counts |-> dc]
    ELSE IF data_count.t # "dict" \/ ~hashable(department_id)
    THEN [raised |-> TRUE, stamped |-> FALSE, dept_counts |-> dc]
    ELSE [raised |-> FALSE, stamped |-> TRUE,
          dept_counts |->
             odict_set([i \in 1..Len(dc) |->
                           [dc[i] EXCEPT !.value.list_person = PyList(<<>>)]],
                       department_id,
                       new_snapshot(dc, department_id, data_count, list_person))]

\* update_counts(department_id, data_count, list_person) on the dict dc.
\* raised: the call raised (data_count.get on a non-dict, an unhashable key)
\* before storing anything; stamped: last_update_time was set.
update_counts(dc, department_id, data_count, list_person) ==
    IF ~truthy(data_count)
    THEN [raised |-> FALSE, stamped |-> TRUE, dept_counts |-> dc]
    ELSE IF data_count.t # "dict" \/ ~hashable(department_id)
    THEN [raised |-> TRUE, stamped |-> FALSE, dept_counts |-> dc]
    ELSE [raised |-> FALSE, stamped |-> TRUE,
          dept_counts |-> odict_set(dc, department_id,
                            new_snapshot(dc, department_id, data_count, list_person))]

\* A placeholder made of the first 15 characters of the key.
area_of_long_prefix(department_id) ==
    LET dept_info == get_department_info(department_id)
        area == IF DOMAIN dept_info # {} THEN dept_info.area ELSE ""
    IN  IF area # "" THEN [raised |-> FALSE, area |-> area]
        ELSE IF department_id.t # "str" THEN [raised |-> TRUE, area |-> ""]
        ELSE [raised |-> FALSE,
              area |-> "UNKNOWN_AREA ("
                       \o SubSeq(department_id.s, 1, Min(15, Len(department_id.s)))
                       \o "...)"]

\* A placeholder made of the whole key instead of its first characters.
area_of_whole_key(department_id) ==
    LET dept_info == get_department_info(department_id)
        area == IF DOMAIN dept_info # {} THEN dept_info.area ELSE ""
    IN  IF area # "" THEN [raised |-> FALSE, area |-> area]
        ELSE IF department_id.t # "str" THEN [raised |-> TRUE, area |-> ""]
        ELSE [raised |-> FALSE,
              area |-> "UNKNOWN_AREA (" \o department_id.s \o "...)"]

\* The area a stored key is counted under (get_area_counts, the head of the
\* loop body): the directory's area, or the placeholder made of the first
\* KeyPrefixLen characters of the key.  Slicing a key that is no str raises.
area_of(department_id) ==
    LET dept_info == IF SOCKET_AVAILABLE THEN get_department_info(department_id) ELSE <<>>
        area == IF DOMAIN dept_info # {} THEN dept_info.area ELSE ""
    IN  IF area # "" THEN [raised |-> FALSE, area |-> area]
        ELSE IF department_id.t # "str" THEN [raised |-> TRUE, area |-> ""]
        ELSE [raised |-> FALSE,
              area |-> "UNKNOWN_AREA ("
                       \o SubSeq(department_id.s, 1, Min(KeyPrefixLen, Len(department_id.s)))
                       \o "...)"]

\* A filter that does not look at the score.
person_kept_any_score(person) ==
    IF person.t # "dict" THEN [raised |-> TRUE, keep |-> FALSE]
    ELSE [raised |-> FALSE,
          keep |-> /\ truthy(dict_get(person, "subject_name", PyNone))
                   /\ truthy(dict_get(person, "face_url", PyNone))]

\* The filter of get_area_counts on one person: raised when the entry is no
\* dict or its score cannot be compared with 0.
person_kept(person) ==
    IF person.t # "dict" THEN [raised |-> TRUE, keep |-> FALSE]
    ELSE IF ~truthy(dict_get(person, "subject_name", PyNone)) THEN [raised |-> FALSE, keep |-> FALSE]
    ELSE IF ~truthy(dict_get(person, "face_url", PyNone)) THEN [raised |-> FALSE, keep |-> FALSE]
    ELSE LET score == dict_get(person, "score", PyInt(0))
         IN  IF score.t # "int" THEN [raised |-> TRUE, keep |-> FALSE]
             ELSE [raised |-> FALSE, keep |-> score.n > 0]

RECURSIVE persons_fold(_, _, _)
\* for person in counts['list_person']: ... append(person), from index i on.
persons_fold(l, i, acc) ==
    IF acc.raised \/ i > Len(l) THEN acc
    ELSE LET k == person_kept(l[i])
         IN  persons_fold(l, i + 1,
                [raised |-> k.raised,
                 list |-> IF k.keep THEN Append(acc.list, l[i]) ELSE acc.list])

\* The default entry of the defaultdict.
ZeroTotals == [prisoner |-> 0, officer |-> 0, relative |-> 0, list_person |-> <<>>]

\* One pass of the loop body of get_area_counts: the entry is added to the
\* totals of its area.  acc is [raised, areas]; areas maps the areas met so
\* far to their totals.
accumulate(acc, entry) ==
    LET a == area_of(entry.key)
        counts == entry.value
        old == IF a.area \in DOMAIN acc.areas THEN acc.areas[a.area] ELSE ZeroTotals
        ints == /\ counts.prisoner.t = "int"
                /\ counts.officer.t = "int"
                /\ counts.relative.t = "int"
        persons == IF counts.list_person.t = "list"
                   THEN persons_fold(counts.list_person.l, 1,
                                     [raised |-> FALSE, list |-> old.list_person])
                   ELSE [raised |-> TRUE, list |-> old.list_person]
    IN  IF a.raised \/ ~ints \/ persons.raised
        THEN [raised |-> TRUE, areas |-> acc.areas]
        ELSE [raised |-> FALSE,
              areas |-> [x \in DOMAIN acc.areas \cup {a.area} |->
                            IF x = a.area
                            THEN [prisoner |-> old.prisoner + counts.prisoner.n,
                                  officer |-> old.officer + counts.officer.n,
                                  relative |-> old.relative + counts.relative.n,
                                  list_person |-> persons.list]
                            ELSE acc.areas[x]]]

RECURSIVE area_fold(_, _, _)
\* for department_id, counts in self.dept_counts.items(): ..., from entry i on.
area_fold(dc, i, acc) ==
    IF acc.raised \/ i > Len(dc) THEN acc
    ELSE area_fold(dc, i + 1, accumulate(acc, dc[i]))

\* get_area_counts(): [raised, areas]; areas is the returned dict.
get_area_counts(dc) == area_fold(dc, 1, [raised |-> FALSE, areas |-> <<>>])

(***************************************************************************)
(* message_handler (CustomLayoutWindow._init_socket)                       *)
(***************************************************************************)

\* A handler that takes every object for an event, whatever it lacks.
handle_fields_unchecked(dc, d) ==
    LET department_id == dict_get(d, "department_id", PyNone)
        data_count == dict_get(d, "data_count", PyNone)
        list_person == dict_get(d, "list_person", PyList(<<>>))
        counts == IF data_count.t = "dict" THEN data_count ELSE PyDict(EmptyDict)
    IN  [outcome |-> "applied", stamped |-> TRUE,
         dept_counts |-> odict_set(dc, department_id,
            [prisoner |-> dict_get(counts, "prisoner", PyInt(0)),
             officer |-> dict_get(counts, "officer", PyInt(0)),
             relative |-> dict_get(counts, "relative", PyInt(0)),
             list_person |-> IF truthy(list_person) THEN list_person ELSE PyList(<<>>)])]

\* A handler that takes counts that are all 0 for no counts.
handle_fields_skip_zero(dc, d) ==
    LET department_id == dict_get(d, "department_id", PyNone)
        data_count == dict_get(d, "data_count", PyNone)
        list_person == dict_get(d, "list_person", PyList(<<>>))
        u == update_counts(dc, department_id, data_count, list_person)
        some == /\ data_count.t = "dict"
                /\ \E c \in DOMAIN data_count.d : truthy(data_count.d[c])
    IN  IF truthy(department_id) /\ truthy(data_count) /\ some
        THEN IF u.raised
             THEN [outcome |-> "error", stamped |-> FALSE, dept_counts |-> dc]
             ELSE [outcome |-> "applied", stamped |-> u.stamped, dept_counts |-> u.dept_counts]
        ELSE [outcome |-> "ignored", stamped |-> FALSE, dept_counts |-> dc]

\* The body shared by the two branches of the handler, on the object d.
\* outcome: "applied" (stored, refresh posted), "ignored" (a field missing
\* or falsy) or "error" (update_counts raised; the handler's except clause
\* logged it).
handle_fields(dc, d) ==
    LET department_id == dict_get(d, "department_id", PyNone)
        data_count == dict_get(d, "data_count", PyNone)
        list_person == dict_get(d, "list_person", PyList(<<>>))
        u == update_counts(dc, department_id, data_count, list_person)
    IN  IF truthy(department_id) /\ truthy(data_count)
        THEN IF u.raised
             THEN [outcome |-> "error", stamped |-> FALSE, dept_counts |-> dc]
             ELSE [outcome |-> "applied", stamped |-> u.stamped, dept_counts |-> u.dept_counts]
        ELSE [outcome |-> "ignored", stamped |-> FALSE, dept_counts |-> dc]

\* message_handler(payload) on the dict dc.
message_handler(dc, payload) ==
    IF payload.t = "dict" THEN handle_fields(dc, payload)
    ELSE IF payload.t = "json"
    THEN LET parsed == json_loads(payload)
         IN  IF parsed.ok /\ parsed.value.t = "dict"
             THEN handle_fields(dc, parsed.value)
             ELSE [outcome |-> "ignored", stamped |-> FALSE, dept_counts |-> dc]
    ELSE [outcome |-> "ignored", stamped |-> FALSE, dept_counts |-> dc]

(***************************************************************************)
(* CustomLayoutWindow: construction                                        *)
(***************************************************************************)
PANEL_WIDTH == 350

\* The most cameras a group window shows (cams[:6]).
MaxCams == 6

\* The geometry Qt gives a child widget that has not been laid out yet.
DefaultGeometry == <<0, 0, 100, 30>>

\* A tile map whose last two slots of the 3x3 grid are taken in the other
\* order.
_get_tile_map_swapped(num_cams) ==
    IF num_cams = 1
    THEN (0 :> <<0, 0, 1, 1>>)
    ELSE IF num_cams \in {2, 3, 4}
    THEN    (0 :> <<0, 0, 1, 1>>) @@ (1 :> <<1, 0, 2, 1>>)
         @@ (2 :> <<0, 1, 1, 2>>) @@ (3 :> <<1, 1, 2, 2>>)
    ELSE    (0 :> <<0, 0, 2, 2>>) @@ (1 :> <<2, 0, 3, 1>>)
         @@ (2 :> <<2, 1, 3, 2>>) @@ (3 :> <<2, 2, 3, 3>>)
         @@ (4 :> <<1, 2, 2, 3>>) @@ (5 :> <<0, 2, 1, 3>>)

\* A tile map whose big slot of the 3x3 grid reaches into the right column.
_get_tile_map_wide(num_cams) ==
    IF num_cams = 1
    THEN (0 :> <<0, 0, 1, 1>>)
    ELSE IF num_cams \in {2, 3, 4}
    THEN    (0 :> <<0, 0, 1, 1>>) @@ (1 :> <<1, 0, 2, 1>>)
         @@ (2 :> <<0, 1, 1, 2>>) @@ (3 :> <<1, 1, 2, 2>>)
    ELSE    (0 :> <<0, 0, 3, 2>>) @@ (1 :> <<2, 0, 3, 1>>)
         @@ (2 :> <<2, 1, 3, 2>>) @@ (3 :> <<2, 2, 3, 3>>)
         @@ (4 :> <<0, 2, 1, 3>>) @@ (5 :> <<1, 2, 2, 3>>)

\* _get_tile_map(num_cams): slot -> <<x_start, y_start, x_end, y_end>>.
_get_tile_map(num_cams) ==
    IF num_cams = 1
    THEN (0 :> <<0, 0, 1, 1>>)
    ELSE IF num_cams \in {2, 3, 4}
    THEN    (0 :> <<0, 0, 1, 1>>) @@ (1 :> <<1, 0, 2, 1>>)
         @@ (2 :> <<0, 1, 1, 2>>) @@ (3 :> <<1, 1, 2, 2>>)
    ELSE    (0 :> <<0, 0, 2, 2>>) @@ (1 :> <<2, 0, 3, 1>>)
         @@ (2 :> <<2, 1, 3, 2>>) @@ (3 :> <<2, 2, 3, 3>>)
         @@ (4 :> <<0, 2, 1, 3>>) @@ (5 :> <<1, 2, 2, 3>>)

\* A frame of self.frames: cam is the index in self.cams of its camera, 0 for
\* the (frame, None, None) of a black tile.
NewFrame(cam) == [cam |-> cam, geometry |-> DefaultGeometry]

\* A truncation that keeps the last 6 cameras.
init_cams_last(cams_in) ==
    IF Len(cams_in) > MaxCams
    THEN SubSeq(cams_in, Len(cams_in) - MaxCams + 1, Len(cams_in))
    ELSE cams_in

\* __init__: cams = cams[:6] when there are more than 6.
init_cams(cams_in) ==
    IF Len(cams_in) > MaxCams THEN SubSeq(cams_in, 1, MaxCams) ELSE cams_in

\* __init__: one frame per camera, then the black tiles of a group of 2 or 3.
init_frames(num_cams) ==
    [i \in 1..num_cams |-> NewFrame(i)]
    \o (IF num_cams = 2 THEN <<NewFrame(0), NewFrame(0)>>
        ELSE IF num_cams = 3 THEN <<NewFrame(0)>>
        ELSE <<>>)

\* self.monitor_timer.setInterval(2000): the time units between two ticks.
MONITOR_INTERVAL == 2

\* No connect attempt made yet for a frame.  at: when the last attempt was
\* made; gap: how long after the attempt before it (-1: there was none);
\* reat and regap: the same for the attempts made by _start_playback alone;
\* state: the player state the monitor saw; after_close: made after
\* closeEvent.
NoAttempt == [kind |-> "none", at |-> -1, gap |-> -1, reat |-> -1, regap |-> -1,
              state |-> "", after_close |-> FALSE]

\* The record of an attempt of the given kind made at time t, after record c.
Attempt(c, kind, t, seen, cl) ==
    [kind |-> kind, at |-> t,
     gap |-> IF c.at = -1 THEN -1 ELSE t - c.at,
     reat |-> IF kind = "initial" THEN c.reat ELSE t,
     regap |-> IF kind = "initial" \/ c.reat = -1 THEN -1 ELSE t - c.reat,
     state |-> seen, after_close |-> cl]

\* No call of _start_playback from outside yet.
NoCall == [idx |-> 0, at |-> -1, early |-> FALSE, bit |-> 0]

\* closeEvent was not called yet: the calls made, the times the socket was
\* disconnected, the players whose stop() failed in the last call and whether
\* the disconnect failed in it.
NoShutdown == [calls |-> 0, disconnects |-> 0, failed |-> {}, sock_failed |-> FALSE]

\* No get_area_counts in progress.
IdleReader == [pc |-> "idle", pos |-> 0, used |-> 0,
               acc |-> [raised |-> FALSE, areas |-> <<>>]]

\* No read made yet.
NoRead == [before |-> <<>>, after |-> <<>>, events |-> 0, done |-> FALSE,
           raised |-> FALSE, areas |-> <<>>]

\* The state of the window after CustomLayoutWindow(cams_in, vlc, name) on a
\* screen of geometry scr: the timers started by __init__ have posted one
\* _update_area_panel and one _layout_and_attach.
InitWindow(cams_in, name, scr) ==
    /\ cams_arg = cams_in
    /\ cams = init_cams(cams_in)
    /\ group_name = name
    /\ frames = init_frames(Len(init_cams(cams_in)))
    /\ players = <<>>
    /\ last_play_attempts = [i \in 1..Max(4, Len(init_cams(cams_in))) |-> 0]
    /\ tile_map = _get_tile_map(Len(init_cams(cams_in)))
    /\ panel_visible = FALSE
    /\ panel_geometry = DefaultGeometry
    /\ area_items = <<>>
    /\ screen = scr
    /\ pending_update = 1
    /\ pending_layout = 1
    /\ next_tick = now + MONITOR_INTERVAL * Resolution
    /\ closed = FALSE
    /\ shutdown = NoShutdown
    /\ socket_connected = SOCKET_AVAILABLE
    /\ conn = [i \in 1..Len(init_frames(Len(init_cams(cams_in)))) |-> NoAttempt]
    /\ last_call = NoCall
    /\ in_flight = [i \in 1..Len(init_frames(Len(init_cams(cams_in)))) |-> 0]

\* The console program before main() has shown anything: an empty tracker
\* and a terminal that nobody wrote.
NoConsole == [dept_counts |-> <<>>, shown |-> <<>>, shown_by |-> "none"]

\* SocketClient.__init__ without options: the defaults, not connected,
\* nothing emitted.
NewClient ==
    [room_id |-> "room-count-in-department",
     username |-> "FE_CameraAI",
     event_name |-> "broadcast-count-in-department",
     is_connected |-> FALSE,
     connected |-> FALSE,
     lost |-> FALSE,
     attempts |-> 0,
     emitted |-> <<>>,
     last_call |-> "__init__",
     last_options |-> <<>>]

\* The programs and objects beside the group window, before they are used.
InitSide ==
    /\ console = NoConsole
    /\ CAM_LIST = <<>>
    /\ cam_groups = <<>>
    /\ windows = <<>>
    /\ main_status = "not_run"
    /\ client = NewClient

\* The tracker as AreaCountTracker() leaves it, and empty histories.
InitTrackerOnly ==
    /\ dept_counts = <<>>
    /\ last_update_time = PyNone
    /\ applied = <<>>
    /\ accepted = <<>>
    /\ last_refresh = "none"
    /\ last_event = [outcome |-> "none", key |-> PyNone, replaced |-> FALSE]
    /\ reader = IdleReader
    /\ read_log = NoRead

\* The tracker of a group window, with nothing running beside the window.
InitTracker ==
    /\ InitTrackerOnly
    /\ InitSide

\* The partition variables, when the function is not called on its own.
PartIdle ==
    /\ total_pixels = 0
    /\ segments = 1
    /\ boundaries = <<>>

(***************************************************************************)
(* CustomLayoutWindow: the event handler and the panel                     *)
(***************************************************************************)

\* The object the handler reads its fields from (the payload or the parsed
\* payload); used by the histories only.
EventObject(payload) == IF payload.t = "json" THEN payload.doc ELSE payload

\* What message_handler(payload) does to the window: the tracker is updated
\* and, for an applied event, a refresh of the panel is posted
\* (QtCore.QTimer.singleShot(0, self._update_area_panel)).
WindowReceives(payload) ==
    LET r == message_handler(dept_counts, payload)
        key == dict_get(EventObject(payload), "department_id", PyNone)
    IN  /\ socket_connected
        /\ r.outcome = "applied" => pending_update < MaxPending
        /\ dept_counts' = r.dept_counts
        /\ last_update_time' = IF r.stamped THEN PyInt(now) ELSE last_update_time
        /\ pending_update' = IF r.outcome = "applied"
                             THEN pending_update + 1 ELSE pending_update
        /\ applied' = IF r.outcome = "applied"
                      THEN [k \in DOMAIN applied \cup {key} |->
                              IF k = key
                              THEN dict_get(EventObject(payload), "data_count", PyNone)
                              ELSE applied[k]]
                      ELSE applied
        /\ accepted' = IF r.outcome = "applied"
                       THEN [k \in DOMAIN accepted \cup {key} |->
                               IF k = key
                               THEN EventObject(payload)
                               ELSE accepted[k]]
                       ELSE accepted
        /\ last_event' = IF r.outcome = "applied"
                         THEN [outcome |-> "applied", key |-> key,
                               replaced |-> key \in odict_keys(dept_counts)]
                         ELSE [outcome |-> r.outcome, key |-> PyNone, replaced |-> FALSE]
        /\ read_log' = IF reader.pc = "iter" /\ r.outcome = "applied"
                        THEN [read_log EXCEPT !.events = Min(2, @ + 1),
                                              !.after = r.dept_counts]
                        ELSE read_log
        /\ UNCHANGED <<partVars, configVars, panelVars, layoutVars, streamVars,
                       pending_layout, now, lifeVars, attemptVars, reader,
                       last_refresh>>

\* message_handler(payload), called by the socket client of the window.
OnMessage(payload) ==
    /\ WindowReceives(payload)
    /\ UNCHANGED sideVars

\* A panel that shows as soon as any area has counts.
panel_wanted_any(areas, name) == DOMAIN areas # {}

\* _update_area_panel: whether the panel is to show, given the dict returned
\* by get_area_counts: only when it holds this window's own area.
panel_wanted(areas, name) == DOMAIN areas # {} /\ name \in DOMAIN areas

IMAGE_BASE_URL == "http://192.168.22.2:10000/movis_data"

\* The most persons _update_area_panel shows (list_person[:10]).
MaxShown == 10

\* _create_area_item: the widget of the area's counts.
_create_area_item(area_name, counts) ==
    [t |-> "area", name |-> area_name, prisoner |-> counts.prisoner,
     officer |-> counts.officer, relative |-> counts.relative]

\* _create_person_item: the widget of a person, with the address of the
\* face image, the name and the score in percent (the model counts scores
\* in hundredths).
_create_person_item(person) ==
    LET face_url == dict_get(person, "face_url", PyStr(""))
        score == dict_get(person, "score", PyInt(0))
    IN  [t |-> "person",
         face |-> IF ~truthy(face_url) THEN ""
                  ELSE IF SubSeq(face_url.s, 1, 1) = "/"
                  THEN IMAGE_BASE_URL \o face_url.s
                  ELSE IMAGE_BASE_URL \o "/" \o face_url.s,
         name |-> dict_get(person, "subject_name", PyStr("Unknown")).s,
         score_percent |-> IF score.n > 0 THEN score.n ELSE 0]

\* A panel that shows every person of the list.
persons_shown_all(list_person) ==
    [i \in 1..Len(list_person) |-> _create_person_item(list_person[i])]

\* for person in list_person[:10]: the widgets of the first 10 persons.
persons_shown(list_person) ==
    [i \in 1..Min(MaxShown, Len(list_person)) |-> _create_person_item(list_person[i])]

\* The widgets _update_area_panel puts into the emptied layout, given the
\* dict returned by get_area_counts: none unless the window's area has
\* counts; else the area's widget and, if it has persons, a separator, a
\* heading and the persons' widgets.
panel_items(areas, name) ==
    IF ~(DOMAIN areas # {} /\ name \in DOMAIN areas) THEN <<>>
    ELSE <<_create_area_item(name, areas[name])>>
         \o (IF areas[name].list_person # <<>>
             THEN <<[t |-> "separator"], [t |-> "persons_label"]>>
                  \o persons_shown(areas[name].list_person)
             ELSE <<>>)

\* _update_area_panel, run from the timer queue.  It empties the layout of
\* the panel, fills it again and ends in _hide_panel or _show_panel, which
\* set panel_visible and post a layout pass.  When get_area_counts raises,
\* the call ends there, with the layout empty.
_update_area_panel ==
    LET r == get_area_counts(dept_counts)
    IN  /\ pending_update > 0
        /\ pending_update' = pending_update - 1
        /\ last_refresh' = IF r.raised THEN "raised" ELSE "returned"
        /\ area_items' = IF r.raised THEN <<>> ELSE panel_items(r.areas, group_name)
        /\ IF r.raised
           THEN UNCHANGED <<panel_visible, pending_layout>>
           ELSE /\ pending_layout < MaxPending
                /\ panel_visible' = panel_wanted(r.areas, group_name)
                /\ pending_layout' = pending_layout + 1
        /\ UNCHANGED <<partVars, trackerVars, configVars, sideVars, frames, panel_geometry,
                       screen, streamVars, now, applied, last_event, accepted,
                       lifeVars, attemptVars, readVars>>

(***************************************************************************)
(* CustomLayoutWindow: the layout pass                                     *)
(***************************************************************************)

\* The vlc.State values the model tells apart.
PlayerStates == {"NothingSpecial", "Opening", "Playing", "Paused",
                 "Stopped", "Ended", "Error"}

\* A vlc.MediaPlayer: its state, the url of its media ("" for none) and the
\* frame whose window it renders into (0 for none).
Player(state, url, hwnd) == [t |-> "player", state |-> state, url |-> url, hwnd |-> hwnd]

\* What one attempt to connect a stream can come to:
\*   "ok"           everything succeeded, the player is opening the stream;
\*   "bind_failed"  set_player_window_for_platform failed (it logs and goes on);
\*   "play_failed"  play() returned an error, the player is in the Error state;
\*   "raise_media"  media_new or set_media raised;
\*   "raise_player" media_player_new raised (first attach), stop raised (restart).
AttemptOutcomes == {"ok", "bind_failed", "play_failed", "raise_media", "raise_player"}

RECURSIVE MaxOf(_)
MaxOf(S) == LET x == CHOOSE y \in S : TRUE
            IN  IF S = {x} THEN x ELSE Max(x, MaxOf(S \ {x}))

\* available_width
\* A usable width that does not make room for the panel.
available_width_full(sw, visible) == sw

\* _layout_and_attach: the width left of the panel when it is shown.
available_width(sw, visible) == IF visible THEN sw - PANEL_WIDTH ELSE sw

\* A geometry that gives every slot the width and height of one grid cell.
frame_geometry_one_cell(tm, idx, x_bounds, y_bounds) ==
    IF idx \notin DOMAIN tm THEN <<0, 0, 0, 0>>
    ELSE LET x == x_bounds[tm[idx][1] + 1]
             y == y_bounds[tm[idx][2] + 1]
         IN  <<x, y, Max(0, x_bounds[tm[idx][1] + 2] - x),
                     Max(0, y_bounds[tm[idx][2] + 2] - y)>>

\* A geometry whose width and height are the differences as they come.
frame_geometry_unclipped(tm, idx, x_bounds, y_bounds) ==
    IF idx \notin DOMAIN tm THEN <<0, 0, 0, 0>>
    ELSE LET x == x_bounds[tm[idx][1] + 1]
             y == y_bounds[tm[idx][2] + 1]
         IN  <<x, y, x_bounds[tm[idx][3] + 1] - x, y_bounds[tm[idx][4] + 1] - y>>

\* The geometry the layout pass sets on frame idx (a Python index).
frame_geometry(tm, idx, x_bounds, y_bounds) ==
    IF idx \notin DOMAIN tm THEN <<0, 0, 0, 0>>
    ELSE LET xs == tm[idx][1]
             ys == tm[idx][2]
             xe == tm[idx][3]
             ye == tm[idx][4]
             x == x_bounds[xs + 1]
             y == y_bounds[ys + 1]
             w == x_bounds[xe + 1] - x
             h == y_bounds[ye + 1] - y
         IN  <<x, y, Max(0, w), Max(0, h)>>

\* A layout that places every frame relative to where it was.
layout_frames_relative(fr, tm, sw, sh, visible) ==
    LET max_x_seg == MaxOf({tm[k][3] : k \in DOMAIN tm})
        max_y_seg == MaxOf({tm[k][4] : k \in DOMAIN tm})
        x_bounds == compute_boundaries(available_width(sw, visible), max_x_seg)
        y_bounds == compute_boundaries(sh, max_y_seg)
    IN  [i \in 1..Len(fr) |->
            LET g == frame_geometry(tm, i - 1, x_bounds, y_bounds)
            IN  [fr[i] EXCEPT !.geometry =
                    <<g[1] + fr[i].geometry[1], g[2] + fr[i].geometry[2], g[3], g[4]>>]]

\* The geometries of all frames for a screen of sw x sh.
layout_frames(fr, tm, sw, sh, visible) ==
    LET max_x_seg == MaxOf({tm[k][3] : k \in DOMAIN tm})
        max_y_seg == MaxOf({tm[k][4] : k \in DOMAIN tm})
        x_bounds == compute_boundaries(available_width(sw, visible), max_x_seg)
        y_bounds == compute_boundaries(sh, max_y_seg)
    IN  [i \in 1..Len(fr) |->
            [fr[i] EXCEPT !.geometry = frame_geometry(tm, i - 1, x_bounds, y_bounds)]]

\* player.play() was called and accepted: an attempt is under way.
play_accepted(outcome) == outcome \in {"ok", "bind_failed"}

\* The attempts in flight for a frame after its first attach.
flight_attached(fr, i, outcome) ==
    IF fr[i].cam # 0 /\ play_accepted(outcome) THEN 1 ELSE 0

\* A first pass that makes a player for a black tile too.
attach_player_padding(fr, cs, i, outcome) ==
    IF fr[i].cam = 0 THEN Player("Opening", "", i)
    ELSE CASE outcome = "ok"           -> Player("Opening", cs[fr[i].cam].url, i)
           [] outcome = "bind_failed"  -> Player("Opening", cs[fr[i].cam].url, 0)
           [] outcome = "play_failed"  -> Player("Error", cs[fr[i].cam].url, i)
           [] OTHER                    -> PyNone

\* The first pass: one entry of self.players per frame.
attach_player(fr, cs, i, outcome) ==
    IF fr[i].cam = 0 THEN PyNone
    ELSE CASE outcome = "ok"           -> Player("Opening", cs[fr[i].cam].url, i)
           [] outcome = "bind_failed"  -> Player("Opening", cs[fr[i].cam].url, 0)
           [] outcome = "play_failed"  -> Player("Error", cs[fr[i].cam].url, i)
           [] OTHER                    -> PyNone

\* A later pass that makes a player for a frame that has none.
rebind_player_recreating(pl, i, outcome) ==
    IF pl[i].t = "player"
    THEN [pl[i] EXCEPT !.hwnd = i]
    ELSE Player("Opening", "", i)

\* A later pass: the player of frame i is bound to the frame's window again.
rebind_player(pl, i, outcome) ==
    IF pl[i].t = "player" /\ outcome # "bind_failed"
    THEN [pl[i] EXCEPT !.hwnd = i]
    ELSE pl[i]

\* _layout_and_attach, with oc[i] the outcome of the backend calls made for
\* frame i.
_layout_and_attach(oc) ==
    /\ frames' = layout_frames(frames, tile_map, screen[1], screen[2], panel_visible)
    /\ panel_geometry' = <<IF panel_visible
                           THEN available_width(screen[1], panel_visible)
                           ELSE screen[1],
                           0, PANEL_WIDTH, screen[2]>>
    /\ players' = IF players = <<>>
                  THEN [i \in 1..Len(frames) |-> attach_player(frames, cams, i, oc[i])]
                  ELSE [i \in 1..Len(players) |->
                          IF i <= Len(frames) THEN rebind_player(players, i, oc[i])
                          ELSE players[i]]
    /\ conn' = IF players = <<>>
               THEN [i \in 1..Len(frames) |->
                       IF frames[i].cam = 0 THEN conn[i]
                       ELSE Attempt(conn[i], "initial", now, "", closed)]
               ELSE conn
    /\ in_flight' = IF players = <<>>
                    THEN [i \in 1..Len(frames) |-> flight_attached(frames, i, oc[i])]
                    ELSE in_flight
    /\ UNCHANGED <<partVars, trackerVars, configVars, panelVars, sideVars, panel_visible, screen,
                   last_play_attempts, pending_update, now, histVars, lifeVars,
                   last_call, readVars>>

\* A posted layout pass runs; the backend answers with outcomes of the set O.
RunLayout(O) ==
    /\ pending_layout > 0
    /\ pending_layout' = pending_layout - 1
    /\ \E oc \in [1..Len(frames) -> O] : _layout_and_attach(oc)

\* resizeEvent and showEvent: each posts a layout pass.
resizeEvent ==
    /\ pending_layout < MaxPending
    /\ pending_layout' = pending_layout + 1
    /\ UNCHANGED <<partVars, trackerVars, configVars, panelVars, sideVars, layoutVars, streamVars,
                   pending_update, now, histVars, lifeVars, attemptVars, readVars>>

(***************************************************************************)
(* CustomLayoutWindow: stream monitoring                                   *)
(***************************************************************************)
RECONNECT_INTERVAL == 5

\* The time units _start_playback lets pass between two attempts
\* (now - self.last_play_attempts[idx] < 1.0).
RestartSpacing == 1

\* A restart that is never held back.
too_soon_never(t, last) == FALSE

\* _start_playback: the last attempt is less than the spacing ago.
too_soon(t, last) == t - last < RestartSpacing * Resolution

\* _monitor_players: the last attempt is more than the interval ago.
reconnect_due(t, last) == t - last > RECONNECT_INTERVAL * Resolution

\* _monitor_players: `player and player.get_state() not in (Playing, Paused)`.
needs_reconnect(p) == p # PyNone /\ p.state \notin {"Playing", "Paused"}

\* _start_playback gets past its early returns for frame i at time t.
playback_proceeds(fr, cs, lpa, i, t) ==
    /\ i <= Len(fr)
    /\ fr[i].cam # 0
    /\ cs[fr[i].cam].url # ""
    /\ ~too_soon(t, lpa[i])

\* The try block of _start_playback on player p of frame i: stop, media_new,
\* set_media, bind, play; an exception ends the block where it is raised.
\* With no player, set_media raises and nothing was done.
restart_player(p, url, i, outcome) ==
    IF p = PyNone THEN PyNone
    ELSE CASE outcome = "ok"           -> Player("Opening", url, i)
           [] outcome = "bind_failed"  -> Player("Opening", url, p.hwnd)
           [] outcome = "play_failed"  -> Player("Error", url, i)
           [] outcome = "raise_media"  -> [p EXCEPT !.state = "Stopped"]
           [] OTHER                    -> p

\* A restart that plays without stopping the player first.
flight_after_no_stop(n, p, outcome) ==
    IF p = PyNone THEN n
    ELSE IF play_accepted(outcome) THEN n + 1 ELSE n

\* The attempts in flight for a frame after the try block of _start_playback
\* on its player p, n being in flight before: player.stop() ends what was
\* under way, player.play() begins an attempt.  An exception before
\* stop() returns leaves the player as it was.
flight_after(n, p, outcome) ==
    IF p = PyNone THEN n
    ELSE CASE play_accepted(outcome)                     -> 1
           [] outcome \in {"play_failed", "raise_media"} -> 0
           [] OTHER                                      -> n

\* _monitor_players, run by self.monitor_timer, with oc[i] the outcome of
\* the backend calls made for frame i: every camera frame whose player is
\* neither playing nor paused and whose last recorded attempt is old enough
\* is restarted by _start_playback.
_monitor_players(oc) ==
    LET go(i) == /\ i <= Len(players)
                 /\ frames[i].cam # 0
                 /\ needs_reconnect(players[i])
                 /\ reconnect_due(now, last_play_attempts[i])
                 /\ playback_proceeds(frames, cams, last_play_attempts, i, now)
    IN  /\ now = next_tick
        /\ next_tick' = now + MONITOR_INTERVAL * Resolution
        /\ players' = [i \in 1..Len(players) |->
                          IF go(i)
                          THEN restart_player(players[i], cams[frames[i].cam].url, i, oc[i])
                          ELSE players[i]]
        /\ last_play_attempts' = [i \in 1..Len(last_play_attempts) |->
                                     IF go(i) THEN now ELSE last_play_attempts[i]]
        /\ conn' = [i \in 1..Len(conn) |->
                       IF go(i)
                       THEN Attempt(conn[i], "reconnect", now, players[i].state, closed)
                       ELSE conn[i]]
        /\ in_flight' = [i \in 1..Len(in_flight) |->
                            IF go(i) THEN flight_after(in_flight[i], players[i], oc[i])
                            ELSE in_flight[i]]
        /\ UNCHANGED <<partVars, trackerVars, configVars, panelVars, sideVars, layoutVars, queueVars,
                       now, histVars, closed, socket_connected, shutdown, last_call,
                       readVars>>

\* A tick of the monitor timer.
MonitorTick == \E oc \in [1..Len(frames) -> AttemptOutcomes] : _monitor_players(oc)

\* _start_playback(idx) called for frame i = idx + 1, whatever the monitor
\* thinks of the stream.  The time of the attempt is recorded before the try
\* block; with no player list yet, or no player, nothing reaches the backend.
_start_playback(i, outcome) ==
    LET proceeds == playback_proceeds(frames, cams, last_play_attempts, i, now)
        issued == proceeds /\ i <= Len(players) /\ players[i] # PyNone
    IN  /\ i \in 1..Len(frames)
        /\ last_play_attempts' = IF proceeds
                                 THEN [last_play_attempts EXCEPT ![i] = now]
                                 ELSE last_play_attempts
        /\ players' = IF issued
                      THEN [players EXCEPT
                              ![i] = restart_player(players[i], cams[frames[i].cam].url,
                                                    i, outcome)]
                      ELSE players
        /\ conn' = IF issued
                   THEN [conn EXCEPT ![i] = Attempt(conn[i], "direct", now, "", closed)]
                   ELSE conn
        /\ last_call' = [idx |-> i, at |-> now,
                         early |-> /\ conn[i].reat # -1
                                   /\ now - conn[i].reat < RestartSpacing * Resolution,
                         bit |-> 1 - last_call.bit]
        /\ in_flight' = IF issued
                        THEN [in_flight EXCEPT
                                ![i] = flight_after(in_flight[i], players[i], outcome)]
                        ELSE in_flight
        /\ UNCHANGED <<partVars, trackerVars, configVars, panelVars, sideVars, layoutVars, queueVars,
                       now, histVars, lifeVars, readVars>>

\* The states a player moves to by itself.
backend_moves(state) ==
    CASE state = "Opening" -> {"Playing", "Error"}
      [] state = "Playing" -> {"Ended", "Error"}
      [] OTHER             -> {}

\* The media backend changes the state of one player.
PlayerStateChange ==
    \E i \in 1..Len(players) :
        /\ players[i] # PyNone
        /\ \E st \in backend_moves(players[i].state) :
              players' = [players EXCEPT ![i].state = st]
        /\ in_flight' = [in_flight EXCEPT
                            ![i] = IF players[i].state = "Opening" THEN 0 ELSE @]
        /\ UNCHANGED <<partVars, trackerVars, configVars, panelVars, sideVars, layoutVars,
                       last_play_attempts, queueVars, now, histVars, lifeVars,
                       conn, last_call, readVars>>

\* The outcomes of a call that closeEvent wraps in try/except.
CloseOutcomes == {"ok", "raise"}

\* SocketClient.disconnect that disconnects whatever the connection is.
disconnect_runs_always(connected) == TRUE

\* SocketClient.disconnect: `if self.socket and self.socket.connected`.
disconnect_runs(connected) == connected

\* The connection after self.socket_client.disconnect() with outcome sock.
socket_after(connected, sock) ==
    IF disconnect_runs(connected) /\ sock = "ok" THEN FALSE ELSE connected

\* A loop over the players that the first failing stop() ends.
stop_all_until_failure(pl, oc) ==
    [i \in 1..Len(pl) |->
        IF \/ pl[i] = PyNone
           \/ \E j \in 1..i : pl[j] # PyNone /\ oc[j] = "raise"
        THEN pl[i]
        ELSE [pl[i] EXCEPT !.state = "Stopped"]]

\* closeEvent's loop over self.players: each p.stop() in its own try/except.
stop_all(pl, oc) ==
    [i \in 1..Len(pl) |->
        IF pl[i] = PyNone \/ oc[i] = "raise" THEN pl[i]
        ELSE [pl[i] EXCEPT !.state = "Stopped"]]

\* closeEvent, with sock the outcome of the socket's disconnect and oc[i] the
\* outcome of the stop() of player i: the socket client is disconnected and
\* every player stopped.  The monitor timer is left running and no player is
\* released.
closeEvent(oc, sock) ==
    /\ closed' = TRUE
    /\ socket_connected' = socket_after(socket_connected, sock)
    /\ players' = stop_all(players, oc)
    /\ in_flight' = [i \in 1..Len(in_flight) |->
                        IF i <= Len(players) /\ stop_all(players, oc)[i] # players[i]
                        THEN 0
                        ELSE in_flight[i]]
    /\ shutdown' = [calls |-> shutdown.calls + 1,
                    disconnects |-> shutdown.disconnects
                                    + (IF disconnect_runs(socket_connected) /\ sock = "ok"
                                       THEN 1 ELSE 0),
                    failed |-> {i \in 1..Len(players) :
                                  players[i] # PyNone /\ oc[i] = "raise"},
                    sock_failed |-> disconnect_runs(socket_connected) /\ sock = "raise"]
    /\ UNCHANGED <<partVars, trackerVars, configVars, panelVars, sideVars, layoutVars,
                   last_play_attempts, queueVars, now, histVars, next_tick,
                   conn, last_call, readVars>>

\* The window is closed once and nothing fails in closeEvent.
CloseWindow ==
    /\ ~closed
    /\ closeEvent([i \in 1..Len(players) |-> "ok"], "ok")

\* The clock moves on by one tick: the monitor timer fires when it is due,
\* and the short single-shot timers have fired by then.
Advance ==
    /\ now < EndTime
    /\ now < next_tick
    /\ pending_update = 0
    /\ pending_layout = 0
    /\ now' = now + 1
    /\ UNCHANGED <<partVars, trackerVars, configVars, panelVars, sideVars, layoutVars, streamVars,
                   queueVars, histVars, lifeVars, attemptVars, readVars>>

(***************************************************************************)
(* The UI thread reads the tracker while the socket thread writes it       *)
(***************************************************************************)

\* _update_area_panel up to the start of the loop of get_area_counts: the
\* call is taken from the timer queue and the iterator of
\* self.dept_counts.items() is created; it remembers the size of the dict.
ReadBegin ==
    /\ pending_update > 0
    /\ reader.pc = "idle"
    /\ pending_update' = pending_update - 1
    /\ reader' = [pc |-> "iter", pos |-> 1, used |-> Len(dept_counts),
                  acc |-> [raised |-> FALSE, areas |-> <<>>]]
    /\ read_log' = [before |-> dept_counts, after |-> dept_counts, events |-> 0,
                    done |-> FALSE, raised |-> FALSE, areas |-> <<>>]
    /\ area_items' = <<>>
    /\ UNCHANGED <<partVars, trackerVars, configVars, sideVars, layoutVars, streamVars,
                   pending_layout, now, histVars, lifeVars, attemptVars>>

\* The read is over: get_area_counts returned areas or raised, and the rest
\* of _update_area_panel runs when it returned.
read_end(raised, areas) ==
    /\ reader' = IdleReader
    /\ read_log' = [read_log EXCEPT !.done = TRUE, !.raised = raised, !.areas = areas]
    /\ last_refresh' = IF raised THEN "raised" ELSE "returned"
    /\ area_items' = IF raised THEN <<>> ELSE panel_items(areas, group_name)
    /\ IF raised
       THEN UNCHANGED <<panel_visible, pending_layout>>
       ELSE /\ pending_layout < MaxPending
            /\ panel_visible' = panel_wanted(areas, group_name)
            /\ pending_layout' = pending_layout + 1

\* One step of the loop: the iterator's next().  It raises RuntimeError
\* ("dictionary changed size during iteration") when the dict no longer has
\* the size it had when the iterator was made, ends the loop after the last
\* entry, and else hands the loop body the next entry.
ReadNext ==
    /\ reader.pc = "iter"
    /\ IF Len(dept_counts) # reader.used
       THEN read_end(TRUE, reader.acc.areas)
       ELSE IF reader.pos > reader.used
       THEN read_end(FALSE, reader.acc.areas)
       ELSE LET acc == accumulate(reader.acc, dept_counts[reader.pos])
            IN  IF acc.raised
                THEN read_end(TRUE, acc.areas)
                ELSE /\ reader' = [reader EXCEPT !.pos = @ + 1, !.acc = acc]
                     /\ UNCHANGED <<read_log, panel_visible, pending_layout,
                                    last_refresh, area_items>>
    /\ UNCHANGED <<partVars, trackerVars, configVars, sideVars, frames, panel_geometry,
                   screen, streamVars, pending_update, now, applied, last_event,
                   accepted, lifeVars, attemptVars>>

\* The screen's geometry changes: the full-screen window is resized and its
\* resizeEvent posts a layout pass.
ScreenChange(scr) ==
    /\ scr # screen
    /\ screen' = scr
    /\ pending_layout < MaxPending
    /\ pending_layout' = pending_layout + 1
    /\ UNCHANGED <<partVars, trackerVars, configVars, panelVars, sideVars, frames, panel_visible,
                   panel_geometry, streamVars, pending_update, now, histVars,
                   lifeVars, attemptVars, readVars>>

(***************************************************************************)
(* realtime_area_counts.py: the console program.  main() runs on the main  *)
(* thread; the socket client calls message_handler on its own thread.      *)
(***************************************************************************)

\* AreaCountTracker.update_counts of the console program: the snapshot has
\* the three counters only.
console_update_counts(dc, department_id, data_count) ==
    IF ~truthy(data_count) THEN [raised |-> FALSE, dept_counts |-> dc]
    ELSE IF data_count.t # "dict" \/ ~hashable(department_id)
    THEN [raised |-> TRUE, dept_counts |-> dc]
    ELSE [raised |-> FALSE,
          dept_counts |-> odict_set(dc, department_id,
                            [prisoner |-> dict_get(data_count, "prisoner", PyInt(0)),
                             officer |-> dict_get(data_count, "officer", PyInt(0)),
                             relative |-> dict_get(data_count, "relative", PyInt(0))])]

\* AreaCountTracker._aggregate_by_area: the loop of get_area_counts without
\* the persons.
_aggregate_by_area(dc) ==
    LET r == get_area_counts([i \in 1..Len(dc) |->
                 [key |-> dc[i].key,
                  value |-> [prisoner |-> dc[i].value.prisoner,
                             officer |-> dc[i].value.officer,
                             relative |-> dc[i].value.relative,
                             list_person |-> PyList(<<>>)]]])
    IN  [raised |-> r.raised,
         areas |-> [a \in DOMAIN r.areas |->
                      [prisoner |-> r.areas[a].prisoner,
                       officer |-> r.areas[a].officer,
                       relative |-> r.areas[a].relative]]]

\* display_counts() called on thread th: the terminal is cleared and the
\* totals are printed; an exception of the aggregation ends the call after
\* the clearing.
display_counts(c, th) ==
    LET r == _aggregate_by_area(c.dept_counts)
    IN  [c EXCEPT !.shown = IF r.raised THEN <<>> ELSE r.areas,
                  !.shown_by = th]

\* The body shared by the two branches of the console's message_handler on
\* the object d: update_counts, then display_counts, both in the handler's
\* own thread; its except clause ends the call where an exception is raised.
console_handle_fields(c, d) ==
    LET department_id == dict_get(d, "department_id", PyNone)
        data_count == dict_get(d, "data_count", PyNone)
        u == console_update_counts(c.dept_counts, department_id, data_count)
    IN  IF truthy(department_id) /\ truthy(data_count)
        THEN IF u.raised THEN c
             ELSE display_counts([c EXCEPT !.dept_counts = u.dept_counts], "socket")
        ELSE c

\* message_handler(payload) of the console program.
console_message_handler(c, payload) ==
    IF payload.t = "dict" THEN console_handle_fields(c, payload)
    ELSE IF payload.t = "json"
    THEN LET parsed == json_loads(payload)
         IN  IF parsed.ok /\ parsed.value.t = "dict"
             THEN console_handle_fields(c, parsed.value)
             ELSE c
    ELSE c

\* The socket thread of the console program delivers an event.
ConsoleMessage(payload) ==
    /\ console' = console_message_handler(console, payload)
    /\ UNCHANGED <<partVars, trackerVars, configVars, panelVars, mainVars, client, layoutVars,
                   streamVars, queueVars, now, histVars, lifeVars, attemptVars,
                   readVars>>

\* main() of the console program shows the first screen, on the main thread.
ConsoleMainDisplay ==
    /\ console.shown_by = "none"
    /\ console' = display_counts(console, "main")
    /\ UNCHANGED <<partVars, trackerVars, configVars, panelVars, mainVars, client, layoutVars,
                   streamVars, queueVars, now, histVars, lifeVars, attemptVars,
                   readVars>>

(***************************************************************************)
(* Inputs                                                                  *)
(***************************************************************************)

\* The camera source list the groups are made of (after DEFAULT_CAM_LIST).
CAM_POOL ==
    << [url |-> "rtsp://192.168.22.3:8564/bbox/a11", name |-> "A11"],
       [url |-> "rtsp://192.168.22.3:8564/bbox/a12", name |-> "A12"],
       [url |-> "rtsp://192.168.22.3:8564/bbox/a13", name |-> "A13"],
       [url |-> "rtsp://192.168.22.3:8564/bbox/a14", name |-> "A14"],
       [url |-> "rtsp://192.168.22.3:8564/bbox/a15", name |-> "A15"],
       [url |-> "rtsp://192.168.22.3:8564/bbox/a16", name |-> "A16"],
       [url |-> "rtsp://192.168.22.3:8564/bbox/a17", name |-> "A17"] >>

\* The first n cameras of the pool.
CamList(n) == SubSeq(CAM_POOL, 1, n)

\* The area of the group window of the model.
OwnArea == "KHU VUC BUONG GIAM"

\* Location keys: two of the window's own area, one of another area, and
\* one the directory does not know.
KeyL1 == "690583e4d2739e469f4efba4"
KeyL2 == "68c7c559e6824a87950bc084"
KeyL3 == "68c7d0345ae9e9e13020dbb8"
KeyZZZ == "ZZZ"
\* Two more keys the directory does not know, alike in their first 8
\* characters.
KeyU1 == "cam-unmapped-01"
KeyU2 == "cam-unmapped-02"

Counts(p, o, r) ==
    PyDict([prisoner |-> PyInt(p), officer |-> PyInt(o), relative |-> PyInt(r)])

\* An event as the message stream delivers it: an object with the three
\* fields.
Event(k, c, lp) ==
    PyDict([department_id |-> PyStr(k), data_count |-> c, list_person |-> lp])

\* The counts the events of the model carry; the last has two counters
\* missing.
CountChoices == {Counts(3, 1, 0), Counts(0, 2, 1), Counts(5, 0, 0),
                 PyDict([prisoner |-> PyInt(2)])}

\* Well-formed events: as objects for every key, and as JSON texts for the
\* first key.
CountEventObjects(keys) == {Event(k, c, PyList(<<>>)) : k \in keys, c \in CountChoices}
CountEvents(keys) ==
    CountEventObjects(keys) \cup {PyJson(TRUE, e) : e \in CountEventObjects({KeyL1})}

\* Malformed events: an unparseable text, a text or a value that is no
\* object, and objects without a location key or without counts.
MalformedObjects ==
    { PyDict([data_count |-> Counts(1, 1, 1), list_person |-> PyList(<<>>)]),
      PyDict([department_id |-> PyNone, data_count |-> Counts(1, 1, 1)]),
      PyDict([department_id |-> PyStr(""), data_count |-> Counts(1, 1, 1)]),
      PyDict([department_id |-> PyStr(KeyL1)]),
      PyDict([department_id |-> PyStr(KeyL1), data_count |-> PyNone]),
      PyDict([department_id |-> PyStr(KeyZZZ), data_count |-> PyDict(EmptyDict)]),
      PyDict(EmptyDict) }
MalformedEvents ==
    MalformedObjects
    \cup {PyJson(TRUE, e) : e \in MalformedObjects}
    \cup { PyJson(FALSE, PyNone),
           PyJson(TRUE, PyList(<<>>)), PyJson(TRUE, PyInt(5)), PyJson(TRUE, PyNone),
           PyNone, PyInt(7), PyList(<<Event(KeyL1, Counts(1, 1, 1), PyList(<<>>))>>) }

(***************************************************************************)
(* The specification of the partition function alone: the arguments are    *)
(* drawn at the start, the call fills in the result.                       *)
(***************************************************************************)
InitPart ==
    /\ total_pixels \in (0..MaxPixels) \cup SamplePixels
    /\ segments \in 1..MaxSegments
    /\ boundaries = <<>>
    /\ now = StartTime
    /\ InitWindow(CamList(1), OwnArea, <<0, 0>>)
    /\ InitTracker

CallComputeBoundaries ==
    /\ boundaries = <<>>
    /\ boundaries' = compute_boundaries(total_pixels, segments)
    /\ UNCHANGED <<total_pixels, segments, trackerVars, configVars, panelVars, sideVars, layoutVars,
                   streamVars, queueVars, now, histVars, lifeVars, attemptVars,
                   readVars>>

NextPart == CallComputeBoundaries

SpecPart == InitPart /\ [][NextPart]_vars

(***************************************************************************)
(* The specification of the area counts: one group window of two cameras   *)
(* on a 1920 x 1080 screen, whose media backend is healthy, receives       *)
(* well-formed and malformed events; the UI thread runs the posted panel   *)
(* refreshes and layout passes.                                            *)
(***************************************************************************)
AggKeys == {KeyL1, KeyL2, KeyZZZ}

InitAgg ==
    /\ PartIdle
    /\ now = StartTime
    /\ InitWindow(CamList(2), OwnArea, <<1920, 1080>>)
    /\ InitTracker

\* The events of the aggregation runs: every choice of counts for the two
\* keys of the window's own area, one event for a key of another area.
AggEvents ==
    CountEvents({KeyL1, KeyL2}) \cup {Event(KeyZZZ, Counts(3, 1, 0), PyList(<<>>))}

DeliverEvent == \E e \in AggEvents : OnMessage(e)

DeliverMalformed == \E e \in MalformedEvents : OnMessage(e)

LayoutHealthy == RunLayout({"ok"})

NextAgg ==
    \/ DeliverEvent
    \/ DeliverMalformed
    \/ _update_area_panel
    \/ LayoutHealthy

SpecAgg == InitAgg /\ [][NextAgg]_vars

(***************************************************************************)
(* The specification of the unmapped locations: as SpecAgg, with events    *)
(* of three keys that the directory does not know.                         *)
(***************************************************************************)
UnmappedKeys == {KeyZZZ, KeyU1, KeyU2}

UnmappedEvents ==
    {Event(k, c, PyList(<<>>)) : k \in UnmappedKeys,
                                c \in {Counts(3, 1, 0), Counts(0, 2, 1)}}

DeliverUnmapped == \E e \in UnmappedEvents : OnMessage(e)

NextUnmapped ==
    \/ DeliverUnmapped
    \/ DeliverMalformed
    \/ _update_area_panel
    \/ LayoutHealthy

SpecUnmapped == InitAgg /\ [][NextUnmapped]_vars

(***************************************************************************)
(* The specification of the recognised persons: as SpecAgg, with events    *)
(* of two keys of the window's area and one of another area that carry     *)
(* lists of persons, complete and incomplete.                              *)
(***************************************************************************)
Person(name, url, score) ==
    PyDict([subject_name |-> PyStr(name), face_url |-> PyStr(url), score |-> PyInt(score)])

\* Scores are counted in hundredths.
PersonAn == Person("An", "/faces/an.jpg", 91)
PersonBinh == Person("Binh", "/faces/binh.jpg", 78)
PersonNoName == Person("", "/faces/x.jpg", 88)
PersonNoUrl == Person("Cuong", "", 85)
PersonZero == Person("Dung", "/faces/dung.jpg", 0)
PersonBelow == Person("Giang", "/faces/giang.jpg", -1)
PersonNoScore == PyDict([subject_name |-> PyStr("Hai"), face_url |-> PyStr("/faces/hai.jpg")])
PersonNameNone == PyDict([subject_name |-> PyNone, face_url |-> PyStr("/faces/y.jpg"),
                          score |-> PyInt(60)])

PersonLists ==
    { <<>>,
      <<PersonAn>>,
      <<PersonAn, PersonNoName, PersonBinh>>,
      <<PersonNoUrl, PersonBinh>>,
      <<PersonZero, PersonAn, PersonNoScore>>,
      <<PersonBelow, PersonNameNone>>,
      <<PersonBinh, PersonAn>> }

PersonEvents ==
    {Event(k, Counts(1, 0, 0), PyList(l)) : k \in {KeyL1, KeyL2}, l \in PersonLists}
    \cup {Event(KeyL3, Counts(0, 1, 0), PyList(<<PersonAn, PersonNoName, PersonBinh>>))}

DeliverPersons == \E e \in PersonEvents : OnMessage(e)

NextPersons ==
    \/ DeliverPersons
    \/ _update_area_panel
    \/ LayoutHealthy

SpecPersons == InitAgg /\ [][NextPersons]_vars

\* Runs in which three keys, two of the window's own area and one of another
\* area, replace their snapshots.
SnapshotEvents ==
    {Event(KeyL1, Counts(1, 0, 0), PyList(l)) : l \in {<<>>, <<PersonAn>>}}
    \cup {Event(KeyL2, Counts(0, 2, 1), PyList(l)) : l \in {<<PersonAn>>, <<PersonBinh>>}}
    \cup {Event(KeyL3, Counts(0, 1, 0), PyList(<<PersonAn, PersonNoName, PersonBinh>>))}

DeliverSnapshot == \E e \in SnapshotEvents : OnMessage(e)

NextSnapshot ==
    \/ DeliverSnapshot
    \/ _update_area_panel
    \/ LayoutHealthy

SpecSnapshot == InitAgg /\ [][NextSnapshot]_vars

(***************************************************************************)
(* The specification of the console program: events of three keys and     *)
(* malformed events reach its handler, before and after main() has shown   *)
(* the first screen.                                                       *)
(***************************************************************************)
ConsoleEvents ==
    {Event(k, c, PyList(<<>>)) : k \in AggKeys, c \in {Counts(3, 1, 0), Counts(0, 2, 1)}}
    \cup {PyJson(TRUE, Event(KeyL1, Counts(5, 0, 0), PyList(<<>>)))}

DeliverConsole == \E e \in ConsoleEvents \cup MalformedEvents : ConsoleMessage(e)

NextConsole ==
    \/ DeliverConsole
    \/ ConsoleMainDisplay

SpecConsole == InitAgg /\ [][NextConsole]_vars

(***************************************************************************)
(* The two programs on one event stream: the server broadcasts an event to  *)
(* the room, and the handler of the window and the handler of the console   *)
(* program each get it.                                                      *)
(***************************************************************************)
Broadcast(payload) ==
    /\ WindowReceives(payload)
    /\ console' = console_message_handler(console, payload)
    /\ UNCHANGED <<mainVars, client>>

\* Events of a key of the directory and of three keys the directory does
\* not know, two of which begin with the same 8 characters.
TwinEvents ==
    {Event(KeyL1, Counts(3, 1, 0), PyList(<<PersonAn>>)),
     Event(KeyU1, Counts(3, 1, 0), PyList(<<>>)),
     Event(KeyU2, Counts(0, 2, 1), PyList(<<>>)),
     Event(KeyU2, Counts(5, 0, 0), PyList(<<>>)),
     Event(KeyZZZ, Counts(0, 2, 1), PyList(<<>>)),
     PyNone}

BroadcastTwin == \E e \in TwinEvents : Broadcast(e)

NextTwin ==
    \/ BroadcastTwin
    \/ _update_area_panel
    \/ LayoutHealthy
    \/ ConsoleMainDisplay

SpecTwin == InitAgg /\ [][NextTwin]_vars

\* A stream of events of three keys, with and without persons, one of them
\* with a list_person whose entry is no person.
TwinTypedEvents ==
    {Event(KeyL1, Counts(3, 1, 0), PyList(<<>>)),
     Event(KeyL1, Counts(0, 2, 1), PyList(<<PersonAn>>)),
     Event(KeyL2, Counts(0, 2, 1), PyList(<<>>)),
     Event(KeyL2, Counts(3, 1, 0), PyList(<<PyInt(7)>>)),
     Event(KeyU1, Counts(3, 1, 0), PyList(<<>>)),
     PyJson(TRUE, Event(KeyU1, Counts(5, 0, 0), PyList(<<>>))),
     PyNone}

BroadcastTyped == \E e \in TwinTypedEvents : Broadcast(e)

NextTwinTyped ==
    \/ BroadcastTyped
    \/ _update_area_panel
    \/ LayoutHealthy
    \/ ConsoleMainDisplay

SpecTwinTyped == InitAgg /\ [][NextTwinTyped]_vars

(***************************************************************************)
(* The specification of the order of the events: as SpecAgg, with events   *)
(* of two keys that differ in their counts and persons, and malformed      *)
(* events between them.                                                    *)
(***************************************************************************)
OrderEvents ==
    {Event(k, c, PyList(l)) : k \in {KeyL1, KeyL3},
                              c \in {Counts(3, 1, 0), Counts(0, 2, 1),
                                     PyDict([prisoner |-> PyInt(2)])},
                              l \in {<<>>, <<PersonAn>>, <<PersonNoUrl, PersonBinh>>}}
    \cup {PyDict([department_id |-> PyStr(KeyL1), data_count |-> Counts(5, 0, 0)])}

DeliverOrder == \E e \in OrderEvents : OnMessage(e)

NextOrder ==
    \/ DeliverOrder
    \/ DeliverMalformed
    \/ _update_area_panel
    \/ LayoutHealthy

SpecOrder == InitAgg /\ [][NextOrder]_vars

(***************************************************************************)
(* The specification of the emptied location: as SpecAgg, with events of   *)
(* two keys of the own area whose counts are (3,1,0) or (0,0,0), and       *)
(* persons with the first.                                                 *)
(***************************************************************************)
ZeroKeys == {KeyL1, KeyL2}

ZeroEvents ==
    {Event(k, Counts(3, 1, 0), PyList(<<PersonAn>>)) : k \in ZeroKeys}
    \cup {Event(k, Counts(0, 0, 0), PyList(<<>>)) : k \in ZeroKeys}

DeliverZero == \E e \in ZeroEvents : OnMessage(e)

NextZero ==
    \/ DeliverZero
    \/ _update_area_panel
    \/ LayoutHealthy

SpecZero == InitAgg /\ [][NextZero]_vars

(***************************************************************************)
(* The specification of the crowded area: as SpecAgg, with events that     *)
(* carry up to 13 persons for the keys of the own area and of another.     *)
(***************************************************************************)
CrowdNames == <<"P01", "P02", "P03", "P04", "P05", "P06",
                "P07", "P08", "P09", "P10", "P11", "P12">>

\* Person i of the crowd: complete, with a score of its own.
Crowd(i) == Person(CrowdNames[i], "/faces/" \o CrowdNames[i] \o ".jpg", 50 + i)

\* The persons from..to of the crowd.
CrowdList(from, to) == [i \in 1..(to - from + 1) |-> Crowd(from + i - 1)]

CrowdEvents ==
    { Event(KeyL1, Counts(6, 0, 0), PyList(CrowdList(1, 6))),
      Event(KeyL2, Counts(6, 0, 0), PyList(CrowdList(7, 12))),
      Event(KeyL1, Counts(11, 0, 0), PyList(CrowdList(1, 11))),
      Event(KeyL1, Counts(12, 1, 0),
            PyList(CrowdList(1, 4) \o <<PersonNoUrl>> \o CrowdList(5, 12))),
      Event(KeyL2, Counts(0, 2, 0), PyList(<<Crowd(12), PersonZero, Crowd(11)>>)),
      Event(KeyL2, Counts(1, 0, 0), PyList(<<>>)),
      Event(KeyL3, Counts(12, 0, 0), PyList(CrowdList(1, 12))) }

DeliverCrowd == \E e \in CrowdEvents : OnMessage(e)

NextCrowd ==
    \/ DeliverCrowd
    \/ _update_area_panel
    \/ LayoutHealthy

SpecCrowd == InitAgg /\ [][NextCrowd]_vars

(***************************************************************************)
(* The specification of the silent location: a group window of one camera  *)
(* receives events of two keys of its area while the clock runs to its end *)
(* and the monitor ticks.                                                  *)
(***************************************************************************)

\* The time units the clock runs on for in this specification.
SilentSpan == 3

InitSilent ==
    /\ PartIdle
    /\ now = EndTime - SilentSpan * Resolution
    /\ InitWindow(CamList(1), OwnArea, <<1920, 1080>>)
    /\ InitTracker

SilentEvents ==
    {Event(k, c, PyList(<<>>)) : k \in {KeyL1, KeyL2},
                                 c \in {Counts(3, 1, 0), Counts(0, 2, 1)}}

DeliverSilent == \E e \in SilentEvents : OnMessage(e)

\* The monitor ticks and the backend does what it is asked.
MonitorHealthy == \E oc \in [1..Len(frames) -> {"ok"}] : _monitor_players(oc)

NextSilent ==
    \/ DeliverSilent
    \/ DeliverMalformed
    \/ _update_area_panel
    \/ LayoutHealthy
    \/ MonitorHealthy
    \/ Advance

SpecSilent == InitSilent /\ [][NextSilent]_vars

(***************************************************************************)
(* main(): the camera source list is grouped by area and one group window  *)
(* is constructed per group.                                               *)
(***************************************************************************)

\* The longest camera source list of the model.
MaxSource == 3

\* cam.get("area", "Unknown")
cam_area(cam) == IF "area" \in DOMAIN cam THEN cam.area ELSE "Unknown"

\* A camera of the pool as the JSON file gives it, with its area.
InArea(cam, area) == [url |-> cam.url, name |-> cam.name, area |-> area]

\* The cameras the source list is made of: two areas that alternate, a
\* camera without an area and one whose area is the default's name.
SourceCams ==
    { InArea(CAM_POOL[1], "KHU VUC BUONG GIAM"),
      InArea(CAM_POOL[2], "KHU VUC HANG RAO"),
      InArea(CAM_POOL[3], "KHU VUC BUONG GIAM"),
      CAM_POOL[4],
      InArea(CAM_POOL[5], "Unknown") }

SourceLists == UNION {[1..n -> SourceCams] : n \in 0..MaxSource}

\* A grouping that puts the camera in front of the cameras of its group.
group_prepend(groups, area, cam) ==
    odict_set(groups, area, <<cam>> \o odict_at(groups, area))

\* cam_groups[area].append(cam)
group_append(groups, area, cam) ==
    odict_set(groups, area, Append(odict_at(groups, area), cam))

\* The body of the loop over CAM_LIST, for one camera.
group_step(groups, cam) ==
    LET area == cam_area(cam)
        made == IF area \notin odict_keys(groups)
                THEN odict_set(groups, area, <<>>)
                ELSE groups
    IN  group_append(made, area, cam)

\* The loop over CAM_LIST, from the camera at index i on.
RECURSIVE group_cams(_, _, _)
group_cams(list, i, groups) ==
    IF i > Len(list) THEN groups
    ELSE group_cams(list, i + 1, group_step(groups, list[i]))

\* The loop over cam_groups.items(): a window per group, moved by 50 * i.
make_windows(groups) ==
    [g \in 1..Len(groups) |->
        [group_name |-> groups[g].key,
         cams |-> init_cams(groups[g].value),
         pos |-> <<50 * (g - 1), 50 * (g - 1)>>]]

\* main(): no cameras, exit with 1; otherwise the groups and their windows.
main ==
    /\ main_status = "not_run"
    /\ IF CAM_LIST = <<>>
       THEN /\ main_status' = "exit_1"
            /\ UNCHANGED <<cam_groups, windows>>
       ELSE /\ cam_groups' = group_cams(CAM_LIST, 1, <<>>)
            /\ windows' = make_windows(group_cams(CAM_LIST, 1, <<>>))
            /\ main_status' = "running"
    /\ UNCHANGED <<partVars, trackerVars, configVars, panelVars, console, CAM_LIST, client,
                   layoutVars, streamVars, queueVars, now, histVars, lifeVars,
                   attemptVars, readVars>>

\* The state main() starts in, for every source list of the model.
InitMain ==
    /\ PartIdle
    /\ now = StartTime
    /\ InitWindow(CamList(1), OwnArea, <<1920, 1080>>)
    /\ InitTrackerOnly
    /\ console = NoConsole
    /\ CAM_LIST \in SourceLists
    /\ cam_groups = <<>>
    /\ windows = <<>>
    /\ main_status = "not_run"
    /\ client = NewClient

NextMain == main

SpecMain == InitMain /\ [][NextMain]_vars

(***************************************************************************)
(* The specification of the field types: as SpecAgg, with events whose     *)
(* fields are of other types than the handler expects, and well-typed      *)
(* events between them.                                                    *)
(***************************************************************************)
TypedEvents ==
    { \* a counter that is a text
      Event(KeyL1, PyDict([prisoner |-> PyStr("3"), officer |-> PyInt(1),
                           relative |-> PyInt(0)]), PyList(<<>>)),
      \* a counter that is null
      Event(KeyL2, PyDict([prisoner |-> PyInt(1), officer |-> PyNone]), PyList(<<>>)),
      \* a location key that is a number
      PyDict([department_id |-> PyInt(7), data_count |-> Counts(1, 0, 0),
              list_person |-> PyList(<<>>)]),
      \* persons that are no list, a person that is no object, a score that
      \* is a text
      Event(KeyL1, Counts(1, 0, 0), PyStr("nobody")),
      Event(KeyL2, Counts(1, 0, 0), PyList(<<PyStr("An")>>)),
      Event(KeyL1, Counts(1, 0, 0),
            PyList(<<PyDict([subject_name |-> PyStr("An"),
                             face_url |-> PyStr("/faces/an.jpg"),
                             score |-> PyStr("0.91")])>>)),
      \* counts that are no object, a location key that is a list
      Event(KeyL1, PyInt(5), PyList(<<>>)),
      PyDict([department_id |-> PyList(<<PyStr(KeyL1)>>), data_count |-> Counts(1, 0, 0)]),
      \* a payload that is neither an object nor a text
      PyInt(7),
      \* well-typed events
      Event(KeyL1, Counts(3, 1, 0), PyList(<<PersonAn>>)),
      Event(KeyL2, Counts(0, 2, 1), PyList(<<>>)) }

DeliverTyped == \E e \in TypedEvents : OnMessage(e)

NextTypes ==
    \/ DeliverTyped
    \/ _update_area_panel
    \/ LayoutHealthy

SpecTypes == InitAgg /\ [][NextTypes]_vars

(***************************************************************************)
(* SocketClient (hooks/use_socket.py): connecting, disconnecting and       *)
(* update_options.                                                         *)
(***************************************************************************)

\* The most messages the client emits in a behaviour of the model.
MaxJoins == 3

\* json.dumps(join_data) of _join_room, emitted as 'join-room'.
join_message(room_id, username) ==
    [event |-> "join-room",
     data |-> PyJson(TRUE, PyDict([roomId |-> PyStr(room_id),
                                   username |-> PyStr(username)]))]

\* _join_room: nothing unless connected; else the join is emitted.
_join_room(c) ==
    IF ~c.is_connected THEN c
    ELSE [c EXCEPT !.emitted = Append(@, join_message(c.room_id, c.username))]

\* A rejoin on a change of the room only.
rejoin_room_only(room_changed, username_changed, is_connected) ==
    room_changed /\ is_connected

\* update_options: (room_changed or username_changed) and self.is_connected
rejoin(room_changed, username_changed, is_connected) ==
    (room_changed \/ username_changed) /\ is_connected

\* update_options(options) on the client c.
update_options(c, options) ==
    LET room_changed == "roomId" \in DOMAIN options /\ options.roomId # c.room_id
        username_changed == "username" \in DOMAIN options /\ options.username # c.username
        event_changed == "eventName" \in DOMAIN options /\ options.eventName # c.event_name
        stored == [c EXCEPT !.room_id = IF room_changed THEN options.roomId ELSE @,
                            !.username = IF username_changed THEN options.username ELSE @,
                            !.event_name = IF event_changed THEN options.eventName ELSE @]
    IN  IF rejoin(room_changed, username_changed, c.is_connected)
        THEN _join_room(stored)
        ELSE stored

\* The values the options of the model take, per key.
OptionValues ==
    [roomId |-> {"room-count-in-department", "new-room-456"},
     username |-> {"FE_CameraAI", "Updated_Client"},
     eventName |-> {"broadcast-count-in-department", "broadcast-other"}]

\* Every dict with some of the three keys.
OptionChoices ==
    UNION { {o \in [S -> UNION {OptionValues[k] : k \in S}] :
                \A k \in S : o[k] \in OptionValues[k]} :
            S \in SUBSET {"roomId", "username", "eventName"} }

\* client.update_options(options)
UpdateOptions(options) ==
    /\ Len(update_options(client, options).emitted) <= MaxJoins
    /\ client' = [update_options(client, options) EXCEPT
                      !.last_call = "update_options", !.last_options = options]
    /\ UNCHANGED <<partVars, trackerVars, configVars, panelVars, console, mainVars, layoutVars,
                   streamVars, queueVars, now, histVars, lifeVars, attemptVars,
                   readVars>>

\* socketio.Client(reconnection=True, reconnection_attempts=5): the attempts
\* the library makes to connect again after the transport was lost.
reconnection_attempts == 5

\* A 'connect' handler that sets the flag and joins no room.
on_connect_flag_only(c) == [c EXCEPT !.is_connected = TRUE]

\* The 'connect' handler: is_connected is set and the room is joined.
on_connect(c) == _join_room([c EXCEPT !.is_connected = TRUE])

\* The 'disconnect' handler: is_connected is cleared.
on_disconnect(c) == [c EXCEPT !.is_connected = FALSE]

\* disconnect(): nothing unless the transport is connected; else
\* socket.disconnect(), on which the library closes the transport and calls
\* the 'disconnect' handler, and is_connected is cleared.
disconnect(c) ==
    IF ~c.connected THEN c
    ELSE [on_disconnect([c EXCEPT !.connected = FALSE]) EXCEPT !.is_connected = FALSE]

\* connect() succeeded: the transport is connected and the library called
\* the 'connect' handler.  connect() does nothing on a connected transport.
ClientConnected ==
    /\ ~client.connected
    /\ ~client.lost
    /\ Len(client.emitted) < MaxJoins
    /\ client' = [on_connect([client EXCEPT !.connected = TRUE]) EXCEPT
                      !.last_call = "connect", !.last_options = <<>>]
    /\ UNCHANGED <<partVars, trackerVars, configVars, panelVars, console, mainVars, layoutVars,
                   streamVars, queueVars, now, histVars, lifeVars, attemptVars,
                   readVars>>

\* connect() failed: the exception of socket.connect is caught and printed.
ConnectFails ==
    /\ ~client.connected
    /\ ~client.lost
    /\ client' = [client EXCEPT !.last_call = "connect_failed", !.last_options = <<>>]
    /\ UNCHANGED <<partVars, trackerVars, configVars, panelVars, console, mainVars, layoutVars,
                   streamVars, queueVars, now, histVars, lifeVars, attemptVars,
                   readVars>>

\* disconnect() on a connected transport.
ClientDisconnected ==
    /\ client.connected
    /\ client' = [disconnect(client) EXCEPT
                      !.last_call = "disconnect", !.last_options = <<>>]
    /\ UNCHANGED <<partVars, trackerVars, configVars, panelVars, console, mainVars, layoutVars,
                   streamVars, queueVars, now, histVars, lifeVars, attemptVars,
                   readVars>>

\* disconnect() on a transport that is not connected: nothing is done.
DisconnectIdle ==
    /\ ~client.connected
    /\ client' = [disconnect(client) EXCEPT
                      !.last_call = "disconnect_idle", !.last_options = <<>>]
    /\ UNCHANGED <<partVars, trackerVars, configVars, panelVars, console, mainVars, layoutVars,
                   streamVars, queueVars, now, histVars, lifeVars, attemptVars,
                   readVars>>

\* The transport is lost: the library calls the 'disconnect' handler and
\* starts to connect again.
TransportLost ==
    /\ client.connected
    /\ client' = [on_disconnect([client EXCEPT !.connected = FALSE, !.lost = TRUE,
                                               !.attempts = 0]) EXCEPT
                      !.last_call = "disconnect_event", !.last_options = <<>>]
    /\ UNCHANGED <<partVars, trackerVars, configVars, panelVars, console, mainVars, layoutVars,
                   streamVars, queueVars, now, histVars, lifeVars, attemptVars,
                   readVars>>

\* An attempt of the library to connect again succeeds: the 'connect'
\* handler is called.
Reconnected ==
    /\ client.lost
    /\ Len(client.emitted) < MaxJoins
    /\ client' = [on_connect([client EXCEPT !.connected = TRUE, !.lost = FALSE,
                                            !.attempts = 0]) EXCEPT
                      !.last_call = "reconnect", !.last_options = <<>>]
    /\ UNCHANGED <<partVars, trackerVars, configVars, panelVars, console, mainVars, layoutVars,
                   streamVars, queueVars, now, histVars, lifeVars, attemptVars,
                   readVars>>

\* An attempt of the library to connect again fails; after the last one the
\* library gives up.
ReconnectFails ==
    /\ client.lost
    /\ client' = [client EXCEPT !.attempts = @ + 1,
                                !.lost = client.attempts + 1 < reconnection_attempts,
                                !.last_call = "reconnect_failed", !.last_options = <<>>]
    /\ UNCHANGED <<partVars, trackerVars, configVars, panelVars, console, mainVars, layoutVars,
                   streamVars, queueVars, now, histVars, lifeVars, attemptVars,
                   readVars>>

CallUpdateOptions == \E options \in OptionChoices : UpdateOptions(options)

NextClient ==
    \/ ClientConnected
    \/ ClientDisconnected
    \/ CallUpdateOptions

SpecClient == InitAgg /\ [][NextClient]_vars

\* The client with its transport: calls of connect, disconnect and
\* update_options, and the events of the library.
SocketOptions ==
    {[roomId |-> "new-room-456"],
     [username |-> "Updated_Client"],
     [roomId |-> "room-count-in-department", username |-> "FE_CameraAI"]}

CallSocketOptions == \E options \in SocketOptions : UpdateOptions(options)

NextSocket ==
    \/ ClientConnected
    \/ ConnectFails
    \/ ClientDisconnected
    \/ DisconnectIdle
    \/ TransportLost
    \/ Reconnected
    \/ ReconnectFails
    \/ CallSocketOptions

SpecSocket == InitAgg /\ [][NextSocket]_vars

(***************************************************************************)
(* The specification of the stream monitoring: one group window of one     *)
(* camera, a media backend that may fail every call, the monitor timer,    *)
(* the clock and the closing of the window.                                *)
(***************************************************************************)
InitConn ==
    /\ PartIdle
    /\ now = StartTime
    /\ InitWindow(CamList(1), OwnArea, <<1920, 1080>>)
    /\ InitTracker

LayoutAny == RunLayout(AttemptOutcomes)

NextConn ==
    \/ _update_area_panel
    \/ LayoutAny
    \/ MonitorTick
    \/ PlayerStateChange
    \/ CloseWindow
    \/ Advance

SpecConn == InitConn /\ [][NextConn]_vars

\* The timers of the UI thread fire and the clock runs.
SpecConnFair ==
    /\ SpecConn
    /\ WF_vars(_update_area_panel)
    /\ WF_vars(LayoutAny)
    /\ WF_vars(MonitorTick)
    /\ WF_vars(Advance)

(***************************************************************************)
(* The specification of the restarts: as SpecConn, and _start_playback is  *)
(* called at any time for any frame.                                       *)
(***************************************************************************)
StartPlaybackCall ==
    \E i \in 1..Len(frames) : \E o \in AttemptOutcomes : _start_playback(i, o)

NextReconnect ==
    \/ NextConn
    \/ StartPlaybackCall

SpecReconnect == InitConn /\ [][NextReconnect]_vars

(***************************************************************************)
(* The specification of a camera without a source: load_cameras_from_json  *)
(* keeps every entry that has the keys 'url' and 'area', an empty url      *)
(* included; the group of that one camera runs as in SpecReconnect.        *)
(***************************************************************************)
NoSourceCam == [url |-> "", name |-> "A11"]

InitNoSource ==
    /\ PartIdle
    /\ now = StartTime
    /\ InitWindow(<<NoSourceCam>>, OwnArea, <<1920, 1080>>)
    /\ InitTracker

SpecNoSource == InitNoSource /\ [][NextReconnect]_vars

(***************************************************************************)
(* The specification of the shutdown: a group window of two cameras and    *)
(* two black tiles whose first attach may fail; the monitor timer and the  *)
(* clock run for GroupSpan time units, and closeEvent is called up to      *)
(* MaxCloses times, each call with any failures of the socket's disconnect *)
(* and of the players' stop().                                             *)
(***************************************************************************)
MaxCloses == 2

\* The time units the clock runs after the window of a whole group was made.
GroupSpan == 3

InitShutdown ==
    /\ PartIdle
    /\ now = EndTime - GroupSpan * Resolution
    /\ InitWindow(CamList(2), OwnArea, <<1920, 1080>>)
    /\ InitTracker

LayoutOrNone == RunLayout({"ok", "raise_player"})


CloseAny ==
    /\ shutdown.calls < MaxCloses
    /\ \E sock \in CloseOutcomes :
          \E F \in SUBSET {i \in 1..Len(players) : players[i] # PyNone} :
             closeEvent([i \in 1..Len(players) |-> IF i \in F THEN "raise" ELSE "ok"],
                        sock)

NextShutdown ==
    \/ _update_area_panel
    \/ LayoutOrNone
    \/ MonitorHealthy
    \/ PlayerStateChange
    \/ CloseAny
    \/ Advance

SpecShutdown == InitShutdown /\ [][NextShutdown]_vars

(***************************************************************************)
(* The specification of a group with black tiles: group windows of 2 or 3  *)
(* cameras whose first attach may fail; layout passes are posted again by  *)
(* resizes, and the monitor timer ticks for GroupSpan time units.          *)
(***************************************************************************)
InitGroup ==
    /\ PartIdle
    /\ now = EndTime - GroupSpan * Resolution
    /\ \E n \in 2..3 : InitWindow(CamList(n), OwnArea, <<1920, 1080>>)
    /\ InitTracker

NextGroup ==
    \/ _update_area_panel
    \/ LayoutOrNone
    \/ resizeEvent
    \/ MonitorHealthy
    \/ PlayerStateChange
    \/ Advance

SpecGroup == InitGroup /\ [][NextGroup]_vars

(***************************************************************************)
(* The specification of the layout: group windows of 1 to 7 source         *)
(* cameras on screens small and real; events of the group's own area show  *)
(* the panel, the screen changes, the posted layout passes run.            *)
(***************************************************************************)
\* The largest width and height of the small screens.
MaxDim == 3

SampleScreens == {<<353, 3>>, <<1535, 863>>, <<1920, 1080>>}

InitLayout ==
    /\ PartIdle
    /\ now = StartTime
    /\ \E n \in 1..(MaxCams + 1) :
       \E scr \in ((0..MaxDim) \X (0..MaxDim)) \cup SampleScreens :
          InitWindow(CamList(n), OwnArea, scr)
    /\ InitTracker

DeliverOwn ==
    \E c \in {Counts(3, 1, 0), Counts(0, 0, 0)} : OnMessage(Event(KeyL1, c, PyList(<<>>)))

ScreenChanges == \E scr \in SampleScreens : ScreenChange(scr)

NextLayout ==
    \/ DeliverOwn
    \/ _update_area_panel
    \/ LayoutHealthy
    \/ ScreenChanges
    \/ resizeEvent

SpecLayout == InitLayout /\ [][NextLayout]_vars

(***************************************************************************)
(* The specification of the panel's toggling: a group window of 4          *)
(* cameras on a real screen, as in SpecLayout; the single-shot timers of   *)
(* the UI thread fire, so a posted panel refresh and a posted layout pass  *)
(* are run.                                                                *)
(***************************************************************************)
InitToggle ==
    /\ PartIdle
    /\ now = StartTime
    /\ InitWindow(CamList(4), OwnArea, <<1920, 1080>>)
    /\ InitTracker

SpecToggle == InitToggle /\ [][NextLayout]_vars

SpecToggleFair ==
    /\ SpecToggle
    /\ WF_vars(_update_area_panel)
    /\ WF_vars(LayoutHealthy)

(***************************************************************************)
(* The specification of the repeated layout: group windows of 1 to 3       *)
(* cameras whose media backend may fail; events, resizes and screen        *)
(* changes post layout passes after the first.                             *)
(***************************************************************************)
InitRelayout ==
    /\ PartIdle
    /\ now = StartTime
    /\ \E n \in 1..3 : \E scr \in SampleScreens : InitWindow(CamList(n), OwnArea, scr)
    /\ InitTracker

\* The backend binds or fails to bind a window, or fails to make a player.
LayoutSome == RunLayout({"ok", "bind_failed", "raise_player"})

NextRelayout ==
    \/ DeliverOwn
    \/ _update_area_panel
    \/ LayoutSome
    \/ ScreenChanges
    \/ resizeEvent

SpecRelayout == InitRelayout /\ [][NextRelayout]_vars

(***************************************************************************)
(* The specification of the repeated pass: as SpecRelayout, for one group  *)
(* window of 3 cameras.                                                    *)
(***************************************************************************)
InitRepeat ==
    /\ PartIdle
    /\ now = StartTime
    /\ InitWindow(CamList(3), OwnArea, <<1535, 863>>)
    /\ InitTracker

SpecRepeat == InitRepeat /\ [][NextRelayout]_vars

(***************************************************************************)
(* The specification of the concurrent read: the socket thread applies     *)
(* events while the UI thread runs get_area_counts step by step.           *)
(***************************************************************************)
DeliverConc ==
    \E k \in {KeyL1, KeyL2} : \E c \in {Counts(3, 1, 0), Counts(0, 2, 1)} :
        OnMessage(Event(k, c, PyList(<<>>)))

NextConc ==
    \/ DeliverConc
    \/ ReadBegin
    \/ ReadNext
    \/ LayoutHealthy

SpecConc == InitAgg /\ [][NextConc]_vars

(***************************************************************************)
(* Claims                                                                  *)
(***************************************************************************)
RECURSIVE SumDiffs(_, _)
\* The sum of the differences b[i+1] - b[i] for i = 1 .. n-1.
SumDiffs(b, n) ==
    IF n <= 1 THEN 0 ELSE (b[n] - b[n - 1]) + SumDiffs(b, n - 1)

\* C1: for every totalPixels >= 0 and segments >= 1 the result of
\* compute_boundaries has exactly segments+1 entries, starts at 0, ends at
\* totalPixels, never decreases, and its consecutive differences sum to
\* totalPixels.
C1_Boundaries ==
    boundaries # <<>> =>
        /\ Len(boundaries) = segments + 1
        /\ boundaries[1] = 0
        /\ boundaries[segments + 1] = total_pixels
        /\ \A i \in 1..segments : boundaries[i] <= boundaries[i + 1]
        /\ SumDiffs(boundaries, Len(boundaries)) = total_pixels

\* A call on a span that does not divide evenly: 1535 pixels in 3 segments.
C1_Witness ==
    /\ total_pixels = 1535
    /\ segments = 3
    /\ boundaries = <<0, 512, 1023, 1535>>

\* The width of segment i of the partition.
WidthOf(i) == boundaries[i + 1] - boundaries[i]

\* C28: every segment width of compute_boundaries differs from the ideal
\* width total_pixels / segments by less than one pixel (in whole numbers:
\* width * segments differs from total_pixels by less than segments); 1536
\* pixels in 3 segments give 0, 512, 1024, 1536, and the three widths of 1535
\* pixels in 3 segments are each 511 or 512.
C28_WidthsNearIdeal ==
    boundaries # <<>> =>
        /\ \A i \in 1..segments :
              /\ WidthOf(i) * segments - total_pixels < segments
              /\ total_pixels - WidthOf(i) * segments < segments
        /\ (total_pixels = 1536 /\ segments = 3)
              => boundaries = <<0, 512, 1024, 1536>>
        /\ (total_pixels = 1535 /\ segments = 3)
              => \A i \in 1..3 : WidthOf(i) \in {511, 512}

\* 1535 pixels do not divide by 3: the widths are 512, 511 and 512.
C28_Witness ==
    /\ total_pixels = 1535
    /\ segments = 3
    /\ Len(boundaries) = 4
    /\ <<WidthOf(1), WidthOf(2), WidthOf(3)>> = <<512, 511, 512>>

(***************************************************************************)
(* Layout                                                                  *)
(***************************************************************************)
RECURSIVE SumAreas(_, _)
\* The sum of the areas of the first n frames' rectangles.
SumAreas(fr, n) ==
    IF n = 0 THEN 0
    ELSE fr[n].geometry[3] * fr[n].geometry[4] + SumAreas(fr, n - 1)

\* C2: after a layout pass the rectangles of the group's frames (streams and
\* black tiles) have areas that sum to the width of the surface left to the
\* streams times its height.
C2_ExactCover ==
    (/\ players # <<>>
     /\ pending_layout = 0
     /\ available_width(screen[1], panel_visible) >= 0)
    => SumAreas(frames, Len(frames)) =
          available_width(screen[1], panel_visible) * screen[2]

\* The topology of a group of count streams, as the policy states it: one
\* slot on a 1x1 grid; the four cells of a 2x2 grid in row-major order; on a
\* 3x3 grid the top-left 2x2 region, then the right column downwards, then
\* the bottom row from the left.
PolicyTopology(count) ==
    IF count = 1 THEN [k \in {0} |-> <<0, 0, 1, 1>>]
    ELSE IF count \in 2..4
    THEN [k \in 0..3 |-> <<k % 2, k \div 2, (k % 2) + 1, (k \div 2) + 1>>]
    ELSE [k \in 0..5 |->
            IF k = 0 THEN <<0, 0, 2, 2>>
            ELSE IF k <= 3 THEN <<2, k - 1, 3, k>>
            ELSE <<k - 4, 2, k - 3, 3>>]

\* C11: the topology of a group is the fixed policy's topology for the
\* number of its streams.
C11_TopologyIsPolicy ==
    /\ Len(cams) \in 1..6
    /\ tile_map = PolicyTopology(Len(cams))

\* A group of 6 streams is laid out with the six slots of the 3x3 policy.
C11_Witness ==
    /\ Len(cams) = 6
    /\ players # <<>>
    /\ tile_map[0] = <<0, 0, 2, 2>>
    /\ tile_map[4] = <<0, 2, 1, 3>>
    /\ tile_map[5] = <<1, 2, 2, 3>>

\* C21: a group given more than 6 cameras keeps the first 6 in their order
\* and takes the topology for 6; a group given at most 6 keeps them all.
C21_FirstSix ==
    /\ Len(cams) = Min(Len(cams_arg), 6)
    /\ \A i \in 1..Len(cams) : cams[i] = cams_arg[i]
    /\ Len(cams_arg) <= 6 => cams = cams_arg
    /\ Len(cams_arg) > 6 =>
          /\ tile_map = PolicyTopology(6)
          /\ Len(frames) = 6
          /\ \A i \in 1..6 : frames[i].cam = i

\* A group given 7 cameras was laid out with the first 6.
C21_Witness ==
    /\ Len(cams_arg) = 7
    /\ Len(cams) = 6
    /\ cams[1] = cams_arg[1] /\ cams[6] = cams_arg[6]
    /\ Len(players) = 6
    /\ players[6] # PyNone /\ players[6].url = cams_arg[6].url

\* The grid of a topology: its columns and rows.
GridCols(tm) == MaxOf({tm[k][3] : k \in DOMAIN tm})
GridRows(tm) == MaxOf({tm[k][4] : k \in DOMAIN tm})

\* The slots of topology tm whose span holds the cell of column c, row r.
SlotsOver(tm, c, r) ==
    {k \in DOMAIN tm : tm[k][1] <= c /\ c < tm[k][3] /\ tm[k][2] <= r /\ r < tm[k][4]}

\* C12: every cell of the topology's grid lies in the span of exactly one
\* slot.
C12_CellsOnce ==
    \A c \in 0..(GridCols(tile_map) - 1) : \A r \in 0..(GridRows(tile_map) - 1) :
        Cardinality(SlotsOver(tile_map, c, r)) = 1

\* A group of 5 streams is laid out: its grid has 9 cells and 6 slots.
C12_Witness ==
    /\ Len(cams) = 5
    /\ players # <<>>
    /\ GridCols(tile_map) = 3 /\ GridRows(tile_map) = 3
    /\ Cardinality(DOMAIN tile_map) = 6
    /\ SlotsOver(tile_map, 1, 1) = {0}

\* The rectangle of a slot with span sp, given the boundaries of the columns
\* and of the rows.
SlotRectangle(sp, col, row) ==
    <<col[sp[1] + 1], row[sp[2] + 1],
      col[sp[3] + 1] - col[sp[1] + 1], row[sp[4] + 1] - row[sp[2] + 1]>>

\* The layout pass has run for the screen and the panel as they are, and the
\* usable width is not negative.
LaidOut ==
    /\ players # <<>>
    /\ pending_layout = 0
    /\ available_width(screen[1], panel_visible) >= 0

\* C13: after a layout pass every slot has the rectangle cut by the
\* partitions of the usable width into the grid's columns and of the height
\* into its rows; 6 streams on 1920 x 1080 give slot 0 (0,0,1280,720) and
\* slot 1 (1280,0,640,360).
C13_SlotRectangles ==
    LaidOut =>
       LET col == compute_boundaries(available_width(screen[1], panel_visible),
                                     GridCols(tile_map))
           row == compute_boundaries(screen[2], GridRows(tile_map))
       IN  /\ \A i \in 1..Len(frames) :
                (i - 1) \in DOMAIN tile_map =>
                    frames[i].geometry = SlotRectangle(tile_map[i - 1], col, row)
           /\ (Len(cams) = 6 /\ screen = <<1920, 1080>> /\ ~panel_visible) =>
                 /\ frames[1].geometry = <<0, 0, 1280, 720>>
                 /\ frames[2].geometry = <<1280, 0, 640, 360>>

\* 6 streams are laid out on 1920 x 1080 beside the shown panel: the slots
\* share the 1570 usable pixels.
C13_Witness ==
    /\ LaidOut
    /\ Len(cams) = 6
    /\ screen = <<1920, 1080>>
    /\ panel_visible
    /\ frames[1].geometry = <<0, 0, 1047, 720>>
    /\ frames[2].geometry = <<1047, 0, 523, 360>>

\* Player q is the handle p with, at most, another window: both are none, or
\* both are players of the same stream in the same state.
SameHandle(p, q) ==
    IF p = PyNone THEN q = PyNone
    ELSE q # PyNone /\ q.url = p.url /\ q.state = p.state

\* C14: a layout pass after the first makes no playback handle and destroys
\* none: every entry of the player list is the handle it was, for the same
\* stream, and at most its window binding changes.
C14_HandlesKept ==
    [][(players # <<>> /\ pending_layout' < pending_layout)
          => /\ Len(players') = Len(players)
             /\ \A i \in 1..Len(players) : SameHandle(players[i], players'[i])]_vars

\* A pass has placed the shown panel, so it was not the first: the first
\* stream still has its handle, bound to its frame, and the second, whose
\* handle could not be made, still has none.
C14_Witness ==
    /\ Len(cams) = 2
    /\ panel_visible
    /\ pending_layout = 0
    /\ panel_geometry = <<screen[1] - PANEL_WIDTH, 0, PANEL_WIDTH, screen[2]>>
    /\ players[1] # PyNone /\ players[1].hwnd = 1
    /\ players[2] = PyNone

\* The rectangle a pass gives frame i on the surface, the panel and the
\* topology as they are: that of its slot, no side below 0.
RectangleNow(i) ==
    IF (i - 1) \notin DOMAIN tile_map THEN <<0, 0, 0, 0>>
    ELSE LET col == compute_boundaries(IF panel_visible THEN screen[1] - 350 ELSE screen[1],
                                       GridCols(tile_map))
             row == compute_boundaries(screen[2], GridRows(tile_map))
             r == SlotRectangle(tile_map[i - 1], col, row)
         IN  <<r[1], r[2], Max(0, r[3]), Max(0, r[4])>>

\* The last layout pass was run on the surface, the panel visibility and the
\* topology as they are now.
PassedAsNow ==
    /\ players # <<>>
    /\ \A i \in 1..Len(frames) : frames[i].geometry = RectangleNow(i)
    /\ panel_geometry = <<IF panel_visible THEN screen[1] - 350 ELSE screen[1],
                          0, 350, screen[2]>>

\* C31: a layout pass run again on an unchanged surface, panel visibility
\* and topology gives every slot the rectangle it has, and changes nothing
\* of the group but the windows its players render into.
C31_PassIdempotent ==
    [][(PassedAsNow /\ pending_layout' < pending_layout)
          => /\ frames' = frames
             /\ panel_geometry' = panel_geometry
             /\ Len(players') = Len(players)
             /\ \A i \in 1..Len(players) : SameHandle(players[i], players'[i])
             /\ UNCHANGED <<cams, group_name, tile_map, panel_visible, screen,
                            last_play_attempts, dept_counts, last_update_time,
                            pending_update, next_tick, closed,
                            socket_connected>>]_vars

\* A second event of the own area was refreshed while the panel was shown,
\* and the pass the refresh posted has run: it found the surface, the shown
\* panel and the topology as the pass before had left them.
C31_Witness ==
    /\ last_event.replaced
    /\ panel_visible
    /\ pending_update = 0
    /\ pending_layout = 0
    /\ PassedAsNow
    /\ Len(cams) = 3
    /\ screen = <<1535, 863>>
    /\ players[1] # PyNone /\ players[1].hwnd = 1

\* C34: the rectangle of every frame has a width and a height of at least
\* 0, whatever the surface and the panel's visibility, a surface narrower
\* than the shown panel included.
C34_NoNegativeSides ==
    \A i \in 1..Len(frames) :
        /\ frames[i].geometry[3] >= 0
        /\ frames[i].geometry[4] >= 0

\* A group of 4 was laid out on a 3 x 3 surface beside the shown panel: the
\* usable width is -347, the second column starts at -174 and is 0 wide.
C34_Witness ==
    /\ Len(cams) = 4
    /\ screen = <<3, 3>>
    /\ panel_visible
    /\ pending_layout = 0
    /\ panel_geometry = <<-347, 0, 350, 3>>
    /\ frames[2].geometry = <<-174, 0, 0, 2>>

\* The width left for the frames: the screen's, less the panel's when it is
\* shown.
UsableWidth == IF panel_visible THEN screen[1] - 350 ELSE screen[1]

\* The last layout pass was run with the usable width: the panel was put at
\* its right end and the first frame has the width of its slot.
PassDone ==
    /\ panel_geometry[1] = UsableWidth
    /\ frames[1].geometry[3]
         = Max(0, compute_boundaries(UsableWidth, GridCols(tile_map))[tile_map[0][3] + 1])

\* C24: a change of the panel's visibility posts a layout pass and leaves
\* the tile map alone, and a posted pass is run in the end with the usable
\* width of the visibility it finds.
C24_RelayoutOnToggle ==
    /\ [][panel_visible' # panel_visible
             => (pending_layout' > 0 /\ tile_map' = tile_map)]_vars
    /\ (pending_layout > 0) ~> PassDone

\* The panel of a group of 4 was shown on 1920 x 1080 and the pass it posted
\* has run: the frames share 1570 pixels.
C24_Witness ==
    /\ Len(cams) = 4
    /\ screen = <<1920, 1080>>
    /\ panel_visible
    /\ pending_layout = 0
    /\ panel_geometry[1] = 1570
    /\ frames[1].geometry = <<0, 0, 785, 540>>
    /\ tile_map = PolicyTopology(4)

(***************************************************************************)
(* Area counts                                                             *)
(***************************************************************************)
Counters == {"prisoner", "officer", "relative"}

\* The counter c of the counts object of an event, 0 when it is missing.
CounterOf(data_count, c) == dict_get(data_count, c, PyInt(0)).n

\* The first KeyPrefixLen characters of a key.
KeyPrefix(k) == SubSeq(k, 1, Min(8, Len(k)))

\* The label under which the counts of an unmapped key are reported.
Placeholder(k) == "UNKNOWN_AREA (" \o KeyPrefix(k) \o "...)"

RECURSIVE SumApplied(_, _)
\* The sum, over the keys of K, of counter c of the last applied event.
SumApplied(K, c) ==
    IF K = {} THEN 0
    ELSE LET k == CHOOSE x \in K : TRUE
         IN  CounterOf(applied[k], c) + SumApplied(K \ {k}, c)

\* C3: the totals reported for an area are, counter by counter, the sum over
\* the location keys resolving to that area of the counts of the event
\* applied last for the key: a later event for a key replaces the earlier
\* one.
C3_TotalsAreLatest ==
    LET r == get_area_counts(dept_counts)
    IN  /\ ~r.raised
        /\ DOMAIN r.areas = {area_of(k).area : k \in DOMAIN applied}
        /\ \A a \in DOMAIN r.areas : \A c \in Counters :
              r.areas[a][c] = SumApplied({k \in DOMAIN applied : area_of(k).area = a}, c)

\* L1 = (3,1,0) and L2 = (0,2,1) were applied, then L1 = (5,0,0) replaced
\* the first: the area's totals are (5,2,1).
C3_Witness ==
    /\ last_event = [outcome |-> "applied", key |-> PyStr(KeyL1), replaced |-> TRUE]
    /\ Len(dept_counts) = 2
    /\ PyStr(KeyL1) \in DOMAIN applied /\ applied[PyStr(KeyL1)] = Counts(5, 0, 0)
    /\ PyStr(KeyL2) \in DOMAIN applied /\ applied[PyStr(KeyL2)] = Counts(0, 2, 1)
    /\ get_area_counts(dept_counts).areas[OwnArea] =
         [prisoner |-> 5, officer |-> 2, relative |-> 1, list_person |-> <<>>]

\* C32: no snapshot is removed or expires: a key that holds a snapshot
\* holds it in the next state too, unchanged unless an event of that key
\* was applied in between; and in every state each key with an accepted
\* event adds the counts of its last accepted event to the totals of its
\* area.
C32_NoExpiry ==
    /\ [][\A k \in odict_keys(dept_counts) :
            /\ k \in odict_keys(dept_counts')
            /\ odict_at(dept_counts', k) # odict_at(dept_counts, k)
                  => last_event' = [outcome |-> "applied", key |-> k,
                                    replaced |-> TRUE]]_vars
    /\ [](LET r == get_area_counts(dept_counts)
          IN  \A k \in DOMAIN accepted :
                 /\ ~r.raised
                 /\ area_of(k).area \in DOMAIN r.areas
                 /\ \A c \in Counters :
                       r.areas[area_of(k).area][c] =
                          SumApplied({j \in DOMAIN applied :
                                         area_of(j).area = area_of(k).area}, c))

\* The first key reported, then the second for the first time, and since
\* then a time unit has passed to the end of the clock without an event:
\* the area's totals still hold the counts of both.
C32_Witness ==
    /\ now = EndTime
    /\ last_update_time = PyInt(EndTime - Resolution)
    /\ last_event = [outcome |-> "applied", key |-> PyStr(KeyL2), replaced |-> FALSE]
    /\ DOMAIN applied = {PyStr(KeyL1), PyStr(KeyL2)}
    /\ applied[PyStr(KeyL1)] = Counts(3, 1, 0)
    /\ applied[PyStr(KeyL2)] = Counts(0, 2, 1)
    /\ get_area_counts(dept_counts).areas[OwnArea].prisoner = 3
    /\ get_area_counts(dept_counts).areas[OwnArea].officer = 3

\* The location holds a snapshot with a counter that is not 0.
ReportsSome(k) ==
    /\ PyStr(k) \in odict_keys(dept_counts)
    /\ \E c \in Counters : odict_at(dept_counts, PyStr(k))[c].n # 0

\* C33: an event with the counts (0,0,0) for a location that holds non-zero
\* counts is applied: the location's snapshot becomes (0,0,0) without
\* persons, and the totals of its area lose what the location had counted.
C33_ZeroOverwrites ==
    [][\A k \in ZeroKeys :
          (ReportsSome(k) /\ OnMessage(Event(k, Counts(0, 0, 0), PyList(<<>>))))
             => LET a == area_of(PyStr(k)).area
                    old == odict_at(dept_counts, PyStr(k))
                    new == odict_at(dept_counts', PyStr(k))
                    r == get_area_counts(dept_counts)
                    s == get_area_counts(dept_counts')
                IN  /\ odict_keys(dept_counts') = odict_keys(dept_counts)
                    /\ new.list_person = PyList(<<>>)
                    /\ ~s.raised /\ a \in DOMAIN s.areas
                    /\ \A c \in Counters :
                          /\ new[c] = PyInt(0)
                          /\ s.areas[a][c] = r.areas[a][c] - old[c].n]_vars

\* The first key had reported, and its event with (0,0,0) has been applied
\* since: the totals of the area are those of the second key alone.
C33_Witness ==
    /\ last_event = [outcome |-> "applied", key |-> PyStr(KeyL1), replaced |-> TRUE]
    /\ DOMAIN applied = {PyStr(KeyL1), PyStr(KeyL2)}
    /\ applied[PyStr(KeyL1)] = Counts(0, 0, 0)
    /\ applied[PyStr(KeyL2)] = Counts(3, 1, 0)
    /\ odict_at(dept_counts, PyStr(KeyL1)).prisoner = PyInt(0)
    /\ get_area_counts(dept_counts).areas[OwnArea] =
         [prisoner |-> 3, officer |-> 1, relative |-> 0, list_person |-> <<PersonAn>>]

\* C9: the delivery of a malformed event changes no stored snapshot and no
\* area total.
C9_MalformedDropped ==
    [][\A e \in MalformedEvents :
          OnMessage(e) => /\ dept_counts' = dept_counts
                          /\ get_area_counts(dept_counts') = get_area_counts(dept_counts)]_vars

\* A malformed event was delivered to a tracker that holds the snapshots of
\* two locations, and their totals are still reported.
C9_Witness ==
    /\ last_event.outcome = "ignored"
    /\ Len(dept_counts) = 2
    /\ DOMAIN applied = {PyStr(KeyZZZ), PyStr(KeyU1)}
    /\ get_area_counts(dept_counts).areas[Placeholder(KeyZZZ)].prisoner = 3
    /\ get_area_counts(dept_counts).areas[Placeholder(KeyU1)].officer = 2

\* C10: an applied event whose key the directory does not know is kept: its
\* counts are the key's snapshot, and the area totals hold them under the
\* placeholder label of the key's first 8 characters (together with the
\* counts of the other keys of that label).
C10_UnmappedKept ==
    LET r == get_area_counts(dept_counts)
    IN  \A k \in DOMAIN applied :
            k.s \notin DOMAIN DEPARTMENT_MAPPING =>
                /\ k \in odict_keys(dept_counts)
                /\ \A c \in Counters :
                      odict_at(dept_counts, k)[c].n = CounterOf(applied[k], c)
                /\ ~r.raised
                /\ Placeholder(k.s) \in DOMAIN r.areas
                /\ \A c \in Counters :
                      r.areas[Placeholder(k.s)][c] =
                        SumApplied({j \in DOMAIN applied :
                                       /\ j.s \notin DOMAIN DEPARTMENT_MAPPING
                                       /\ KeyPrefix(j.s) = KeyPrefix(k.s)}, c)

\* An event of the unmapped key "cam-unmapped-01" was applied and its counts
\* are the totals of "UNKNOWN_AREA (cam-unma...)".
C10_Witness ==
    /\ last_event = [outcome |-> "applied", key |-> PyStr(KeyU1), replaced |-> FALSE]
    /\ Len(dept_counts) = 1
    /\ "UNKNOWN_AREA (cam-unma...)" \in DOMAIN get_area_counts(dept_counts).areas
    /\ get_area_counts(dept_counts).areas["UNKNOWN_AREA (cam-unma...)"].prisoner = 3

\* The stored keys of the dict dc that the directory does not know.
UnmappedStored(dc) == {k \in odict_keys(dc) : k.s \notin DOMAIN DEPARTMENT_MAPPING}

RECURSIVE SumStored(_, _, _)
\* The sum, over the keys of K, of counter c of the snapshot dc holds.
SumStored(dc, K, c) ==
    IF K = {} THEN 0
    ELSE LET k == CHOOSE x \in K : TRUE
         IN  odict_at(dc, k)[c].n + SumStored(dc, K \ {k}, c)

\* The totals t of the snapshots dc put the unmapped keys under the
\* placeholder of their first 8 characters: keys with the same first 8
\* characters are under the same label, and the label's counters are the
\* sums of the snapshots of exactly these keys.
ByPrefix(dc, t) ==
    /\ ~t.raised
    /\ \A k \in UnmappedStored(dc) :
          /\ area_of(k) = [raised |-> FALSE, area |-> Placeholder(k.s)]
          /\ Placeholder(k.s) \in DOMAIN t.areas
          /\ \A c \in Counters :
                t.areas[Placeholder(k.s)][c] =
                    SumStored(dc, {j \in UnmappedStored(dc) :
                                      KeyPrefix(j.s) = KeyPrefix(k.s)}, c)

\* C37: the placeholder area of a key the directory does not know depends
\* on the first 8 characters of the key only: two keys with the same first
\* 8 characters have the same placeholder, and in the totals of the window's
\* tracker and of the console's tracker the snapshots of all stored unmapped
\* keys with the same first 8 characters are summed under that one label.
C37_PlaceholderByPrefix ==
    /\ \A k \in UnmappedKeys : \A j \in UnmappedKeys :
          KeyPrefix(j) = KeyPrefix(k) => area_of(PyStr(j)) = area_of(PyStr(k))
    /\ ByPrefix(dept_counts, get_area_counts(dept_counts))
    /\ ByPrefix(console.dept_counts, _aggregate_by_area(console.dept_counts))

\* "cam-unmapped-01" holds (3,1,0) and "cam-unmapped-02" holds (5,0,0): both
\* trackers report (8,1,0) for "UNKNOWN_AREA (cam-unma...)", next to the area
\* of "ZZZ".
C37_Witness ==
    /\ UnmappedStored(dept_counts) = {PyStr(KeyU1), PyStr(KeyU2), PyStr(KeyZZZ)}
    /\ odict_at(dept_counts, PyStr(KeyU1)).prisoner = PyInt(3)
    /\ odict_at(dept_counts, PyStr(KeyU2)).prisoner = PyInt(5)
    /\ get_area_counts(dept_counts).areas["UNKNOWN_AREA (cam-unma...)"].prisoner = 8
    /\ get_area_counts(dept_counts).areas["UNKNOWN_AREA (cam-unma...)"].officer = 1
    /\ _aggregate_by_area(console.dept_counts).areas["UNKNOWN_AREA (cam-unma...)"] =
          [prisoner |-> 8, officer |-> 1, relative |-> 0]
    /\ "UNKNOWN_AREA (ZZZ...)" \in DOMAIN _aggregate_by_area(console.dept_counts).areas

\* The two trackers agree on the totals: either both computations raise, or
\* both return the same areas with the same three counters.
SameTotals(w, c) ==
    /\ w.raised = c.raised
    /\ ~w.raised =>
          /\ DOMAIN w.areas = DOMAIN c.areas
          /\ \A a \in DOMAIN w.areas : \A cn \in Counters :
                w.areas[a][cn] = c.areas[a][cn]

\* C39: after every sequence of events delivered to both programs, the
\* prisoner, officer and relative totals per area of the console's tracker
\* (_aggregate_by_area) equal those of the window's tracker
\* (get_area_counts).
C39_SameTotals ==
    SameTotals(get_area_counts(dept_counts), _aggregate_by_area(console.dept_counts))

\* C38: the client emits join-room, with the roomId and username it holds,
\* at every connect event, the automatic ones included; whenever it emits
\* join-room, is_connected is true; and is_connected is true after a step
\* exactly if the step is a connect event, or is_connected was true and the
\* step is no disconnect event and no disconnect() on a connected transport.
C38_JoinOnConnect ==
    [][client' # client =>
          LET call == client'.last_call
              connects == call \in {"connect", "reconnect"}
              disconnects == call \in {"disconnect", "disconnect_event"}
          IN  /\ connects =>
                    client'.emitted =
                        Append(client.emitted,
                               join_message(client.room_id, client.username))
              /\ client'.emitted # client.emitted =>
                    /\ client'.is_connected
                    /\ client'.emitted =
                          Append(client.emitted,
                                 join_message(client'.room_id, client'.username))
              /\ client'.is_connected = (connects \/ (client.is_connected /\ ~disconnects))]_vars

\* The client joined on connect, lost the transport, was given another room
\* while disconnected, and joined the new room when the library connected
\* again.
C38_Witness ==
    /\ client.last_call = "reconnect"
    /\ client.is_connected
    /\ client.room_id = "new-room-456"
    /\ client.emitted = << join_message("room-count-in-department", "FE_CameraAI"),
                           join_message("new-room-456", "FE_CameraAI") >>

\* The text of field f of a person, "" when the field is missing or no text.
TextOf(person, f) ==
    LET v == dict_get(person, f, PyNone) IN IF v.t = "str" THEN v.s ELSE ""

\* A person with a name, an image reference and a score above 0.
Complete(person) ==
    /\ TextOf(person, "subject_name") # ""
    /\ TextOf(person, "face_url") # ""
    /\ "score" \in DOMAIN person.d
    /\ person.d.score.n > 0

RECURSIVE CompletePersons(_, _, _)
\* The complete persons of the snapshots, from entry i on, of the keys that
\* resolve to area a.
CompletePersons(dc, i, a) ==
    IF i > Len(dc) THEN <<>>
    ELSE (IF area_of(dc[i].key).area = a
          THEN SelectSeq(dc[i].value.list_person.l, Complete)
          ELSE <<>>) \o CompletePersons(dc, i + 1, a)

\* C22: the persons reported for an area are the complete persons of the
\* snapshots of the keys resolving to the area, key after key, in the order
\* the snapshots hold them.
C22_RecentPersons ==
    LET r == get_area_counts(dept_counts)
    IN  /\ ~r.raised
        /\ \A a \in DOMAIN r.areas :
              r.areas[a].list_person = CompletePersons(dept_counts, 1, a)

\* The second key of the area was stored first, the other area's key next,
\* and the first key's list was replaced by a later event: the area reports
\* the complete persons of its two keys, the other area its own.
C22_Witness ==
    /\ Len(dept_counts) = 3
    /\ dept_counts[1].key = PyStr(KeyL2)
    /\ dept_counts[2].key = PyStr(KeyL3)
    /\ dept_counts[1].value.list_person.l = <<PersonNoUrl, PersonBinh>>
    /\ dept_counts[3].value.list_person.l = <<PersonZero, PersonAn, PersonNoScore>>
    /\ last_event.replaced /\ last_event.key = PyStr(KeyL1)
    /\ get_area_counts(dept_counts).areas[OwnArea].list_person = <<PersonBinh, PersonAn>>
    /\ get_area_counts(dept_counts).areas["KHU VUC KSAN"].list_person = <<PersonAn, PersonBinh>>

\* The name and the score of the persons the panel shows, in order.
ShownPersons ==
    LET IsPerson(item) == item.t = "person"
        shown == SelectSeq(area_items, IsPerson)
    IN  [i \in 1..Len(shown) |->
            [name |-> shown[i].name, score |-> shown[i].score_percent]]

\* The name and the score of the first n persons of the list, or of all when
\* it has fewer.
FirstPersons(list, n) ==
    [i \in 1..Min(n, Len(list)) |->
        [name |-> TextOf(list[i], "subject_name"), score |-> list[i].d.score.n]]

\* C35: the panel never shows more than 10 persons, and a refresh shows the
\* first 10 complete persons of the window's area, in their order.
C35_ShownPersonsBounded ==
    /\ [](Len(ShownPersons) <= 10)
    /\ [][pending_update' < pending_update
             => ShownPersons' = FirstPersons(CompletePersons(dept_counts, 1, group_name),
                                             10)]_vars

\* The two keys of the area hold 12 complete persons and the panel was
\* refreshed: it shows 10 of them, from the first of the first key to the
\* fourth of the second.
C35_Witness ==
    /\ pending_update = 0
    /\ last_refresh = "returned"
    /\ Len(dept_counts) = 2
    /\ dept_counts[1].key = PyStr(KeyL1)
    /\ Len(CompletePersons(dept_counts, 1, group_name)) = 12
    /\ Len(ShownPersons) = 10
    /\ ShownPersons[1] = [name |-> "P01", score |-> 51]
    /\ ShownPersons[10] = [name |-> "P10", score |-> 60]
    /\ Len(area_items) = 13

\* C36: a step that changes the tracker applies an event of one key K: the
\* other keys keep their place and their snapshots, no other key appears,
\* and the totals of every area but K's are what they were; a refresh of
\* the panel, which computes the totals, leaves the tracker as it is.
C36_OnlyOwnSnapshot ==
    [][/\ dept_counts' # dept_counts =>
            LET K == last_event'.key
                r == get_area_counts(dept_counts)
                s == get_area_counts(dept_counts')
            IN  /\ last_event'.outcome = "applied"
                /\ odict_keys(dept_counts') = odict_keys(dept_counts) \cup {K}
                /\ \A i \in 1..Len(dept_counts) :
                      dept_counts[i].key # K => dept_counts'[i] = dept_counts[i]
                /\ \A a \in (DOMAIN r.areas \cup DOMAIN s.areas) \ {area_of(K).area} :
                      /\ a \in DOMAIN r.areas /\ a \in DOMAIN s.areas
                      /\ s.areas[a] = r.areas[a]
       /\ pending_update' < pending_update =>
            /\ dept_counts' = dept_counts
            /\ last_update_time' = last_update_time]_vars

\* The three keys hold snapshots with persons, and the event applied last
\* replaced that of the first key by one without persons: the second key of
\* the area and the key of the other area still have theirs.
C36_Witness ==
    /\ last_event = [outcome |-> "applied", key |-> PyStr(KeyL1), replaced |-> TRUE]
    /\ Len(dept_counts) = 3
    /\ dept_counts[1].key = PyStr(KeyL3)
    /\ dept_counts[2].key = PyStr(KeyL1)
    /\ dept_counts[2].value.list_person.l = <<>>
    /\ dept_counts[3].value.list_person.l = <<PersonAn>>
    /\ get_area_counts(dept_counts).areas["KHU VUC KSAN"].list_person = <<PersonAn, PersonBinh>>
    /\ get_area_counts(dept_counts).areas[OwnArea].list_person = <<PersonAn>>

\* The tracker holds a snapshot of a key that the directory places in the
\* window's own area.
HoldsOwnArea ==
    \E i \in 1..Len(dept_counts) :
        /\ dept_counts[i].key.t = "str"
        /\ dept_counts[i].key.s \in DOMAIN DEPARTMENT_MAPPING
        /\ DEPARTMENT_MAPPING[dept_counts[i].key.s].area = group_name

\* C23: after every refresh of the panel, the panel is visible exactly when
\* the tracker holds a snapshot of the window's own area; snapshots of other
\* areas alone never make it visible.
C23_PanelIffOwnArea ==
    /\ [](panel_visible => HoldsOwnArea)
    /\ [][pending_update' < pending_update => (panel_visible' <=> HoldsOwnArea)]_vars

\* The panel is shown after an event of another area and then one of the
\* window's own area were stored and the refresh they posted has run.
C23_Witness ==
    /\ panel_visible
    /\ pending_update = 0
    /\ Len(dept_counts) = 2
    /\ dept_counts[1].key = PyStr(KeyL3)
    /\ dept_counts[2].key = PyStr(KeyL2)

\* C25: what an event makes the display show is written by the thread that
\* owns the display, never by the thread that delivered the event: the
\* terminal of the console program is written by the main thread only, and
\* a step that stores an event in the window's tracker changes neither the
\* panel nor the frames nor runs a layout pass.
C25_RefreshOnOwnThread ==
    /\ [](console.shown_by \in {"none", "main"})
    /\ [][dept_counts' # dept_counts
             => UNCHANGED <<layoutVars, pending_layout, streamVars>>]_vars

\* What an accepted event leaves stored for its key: its three counters, 0
\* for a missing one, and its persons.
SnapshotOf(event) ==
    LET c == event.d.data_count.d
        n(f) == IF f \in DOMAIN c THEN c[f] ELSE PyInt(0)
    IN  [prisoner |-> n("prisoner"), officer |-> n("officer"), relative |-> n("relative"),
         list_person |-> IF "list_person" \in DOMAIN event.d /\ event.d.list_person.l # <<>>
                         THEN event.d.list_person
                         ELSE PyList(<<>>)]

\* C26: events of one key are applied in the order they arrive: the tracker
\* holds a snapshot for exactly the keys of the accepted events, and the
\* snapshot of each key is that of the last event accepted for it.
C26_LastAcceptedStored ==
    /\ odict_keys(dept_counts) = DOMAIN accepted
    /\ \A k \in DOMAIN accepted : odict_at(dept_counts, k) = SnapshotOf(accepted[k])

\* A later event of the first key replaced the snapshot of an earlier one,
\* with other counts and other persons; the second key was stored between
\* the two.
C26_Witness ==
    /\ last_event = [outcome |-> "applied", key |-> PyStr(KeyL1), replaced |-> TRUE]
    /\ accepted[PyStr(KeyL1)] = Event(KeyL1, Counts(0, 2, 1), PyList(<<PersonNoUrl, PersonBinh>>))
    /\ Len(dept_counts) = 2
    /\ dept_counts[1].key = PyStr(KeyL1)
    /\ dept_counts[1].value.officer = PyInt(2)
    /\ dept_counts[1].value.list_person.l = <<PersonNoUrl, PersonBinh>>

(***************************************************************************)
(* Failures                                                                *)
(***************************************************************************)

\* An event the handler failed on left the tracker as it was.
HandlerAbsorbs ==
    [][last_event'.outcome = "error" => dept_counts' = dept_counts]_vars

\* No call of _update_area_panel has ended with an exception.
RefreshReturns == last_refresh # "raised"

\* C29: whatever the types of the fields of the events delivered, the
\* handler absorbs its failures (an event it fails on changes nothing) and
\* no later computation of the area totals raises to its caller: no call
\* of _update_area_panel ends with an exception of get_area_counts.
C29_FailuresAbsorbed ==
    /\ HandlerAbsorbs
    /\ []RefreshReturns

(***************************************************************************)
(* The socket client's options                                             *)
(***************************************************************************)

\* The call changes the room or the username the client has stored.
Changes(options) ==
    \/ "roomId" \in DOMAIN options /\ options.roomId # client.room_id
    \/ "username" \in DOMAIN options /\ options.username # client.username

\* The value stored for a key after a call with the options.
StoredAfter(options, key, old) == IF key \in DOMAIN options THEN options[key] ELSE old

\* C30: a call of update_options stores the options it was given; it emits
\* one join-room message, with the new roomId and username, if the room or
\* the username changed and the client is connected, and emits nothing if
\* nothing changed or the client is not connected.
C30_RejoinIffChanged ==
    [][client'.last_call = "update_options" =>
          LET options == client'.last_options
          IN  /\ client'.room_id = StoredAfter(options, "roomId", client.room_id)
              /\ client'.username = StoredAfter(options, "username", client.username)
              /\ client'.event_name = StoredAfter(options, "eventName", client.event_name)
              /\ client'.is_connected = client.is_connected
              /\ client'.emitted =
                    IF Changes(options) /\ client.is_connected
                    THEN Append(client.emitted,
                                join_message(client'.room_id, client'.username))
                    ELSE client.emitted]_vars

\* A connected client was given another username only: it joined its room
\* again under the new name, after the join of the connect.
C30_Witness ==
    /\ client.last_call = "update_options"
    /\ client.last_options = [username |-> "Updated_Client"]
    /\ client.is_connected
    /\ client.room_id = "room-count-in-department"
    /\ client.emitted = << join_message("room-count-in-department", "FE_CameraAI"),
                           join_message("room-count-in-department", "Updated_Client") >>

(***************************************************************************)
(* Grouping by area                                                        *)
(***************************************************************************)

\* The cameras of the source list that are of the area, in list order.
OfArea(area) ==
    LET Here(cam) == cam_area(cam) = area IN SelectSeq(CAM_LIST, Here)

\* The index of the first camera of the area in the source list.
FirstOf(area) ==
    CHOOSE i \in 1..Len(CAM_LIST) :
        /\ cam_area(CAM_LIST[i]) = area
        /\ \A j \in 1..(i - 1) : cam_area(CAM_LIST[j]) # area

\* C27: once main() has grouped the source list, every camera of the list
\* belongs to exactly one group, the groups and their windows are in the
\* order of the first occurrence of their area in the list, and the cameras
\* of a group are those of its area in the order of the list.
C27_PartitionByArea ==
    main_status = "running" =>
        /\ \A i \in 1..Len(CAM_LIST) :
              Cardinality({g \in 1..Len(cam_groups) :
                  \E p \in 1..Len(cam_groups[g].value) :
                      cam_groups[g].value[p] = CAM_LIST[i]}) = 1
        /\ \A g \in 1..Len(cam_groups) :
              /\ cam_groups[g].value # <<>>
              /\ cam_groups[g].value = OfArea(cam_groups[g].key)
        /\ \A g, h \in 1..Len(cam_groups) :
              g < h => FirstOf(cam_groups[g].key) < FirstOf(cam_groups[h].key)
        /\ Len(windows) = Len(cam_groups)
        /\ \A g \in 1..Len(windows) : windows[g].group_name = cam_groups[g].key

\* Two areas alternate in the list: the group of the first area holds its
\* two cameras in list order, before the group of the second area.
C27_Witness ==
    /\ main_status = "running"
    /\ Len(CAM_LIST) = 3
    /\ cam_area(CAM_LIST[1]) = "KHU VUC BUONG GIAM"
    /\ cam_area(CAM_LIST[2]) = "KHU VUC HANG RAO"
    /\ cam_area(CAM_LIST[3]) = "KHU VUC BUONG GIAM"
    /\ CAM_LIST[1] # CAM_LIST[3]
    /\ Len(cam_groups) = 2
    /\ cam_groups[1].value = <<CAM_LIST[1], CAM_LIST[3]>>
    /\ windows[2].group_name = "KHU VUC HANG RAO"

(***************************************************************************)
(* Stream monitoring                                                       *)
(***************************************************************************)

\* C4: a tick of the health check reconnects a stream only if the state it
\* saw was neither playing nor paused and more than 5 time units have passed
\* since the stream's last connect attempt, the initial connect included.
C4_ReconnectOnlyWhenDue ==
    \A i \in 1..Len(conn) :
        conn[i].kind = "reconnect" =>
            /\ conn[i].state \notin {"Playing", "Paused"}
            /\ conn[i].gap = -1 \/ conn[i].gap > 5 * Resolution

\* The latest time from which a retry is still due before the clock stops.
LastWait == EndTime - (5 + 2) * Resolution

\* Stream i has a source, is not playing, and its last attempt was made at t
\* in a group that is not shut down; the clock has time left for a retry.
Waiting(i, t) ==
    /\ now <= LastWait
    /\ ~closed
    /\ players # <<>>
    /\ frames[i].cam # 0
    /\ cams[frames[i].cam].url # ""
    /\ conn[i].at = t
    /\ players[i] = PyNone \/ players[i].state \notin {"Playing", "Paused"}

\* Stream i is playing or paused.
Plays(i) ==
    /\ i <= Len(players)
    /\ players[i] # PyNone
    /\ players[i].state \in {"Playing", "Paused"}

\* C5: a stream with a source that is not playing is tried again, as long as
\* its group is not shut down: whatever attempt was the last, a later one
\* follows (or the stream plays after all, or the group is shut down).
C5_RetriedAgain ==
    \A t \in StartTime..EndTime :
        Waiting(1, t) ~> \/ conn[1].at > t
                         \/ closed
                         \/ Plays(1)

\* C6: once the group is shut down, the health check does not tick and no
\* connect attempt is made for any of its streams.
C6_SilentAfterClose ==
    [][closed => (next_tick' = next_tick /\ conn' = conn)]_vars

\* C7: two attempts made by _start_playback for one stream are at least 1
\* time unit apart, and a call made less than 1 time unit after such an
\* attempt changes neither the players nor the recorded attempt times.
C7_Spacing ==
    /\ [](\A i \in 1..Len(conn) :
             conn[i].regap = -1 \/ conn[i].regap >= 1 * Resolution)
    /\ [][(last_call' # last_call /\ last_call'.early)
             => UNCHANGED <<players, last_play_attempts, conn>>]_vars

\* An attempt was made exactly 1 time unit after the one before it, and a
\* call one tick later did nothing.
C7_Witness ==
    /\ last_call.idx = 1
    /\ last_call.early
    /\ conn[1].regap = 1 * Resolution
    /\ last_call.at = conn[1].reat + 1
    /\ last_play_attempts[1] = conn[1].reat

\* C15: for a stream whose source is empty no player is made and played,
\* at the start of the group or later: no attempt is recorded for it and its
\* entry of the player list holds no player.
C15_NoSourceStaysIdle ==
    \A i \in 1..Len(frames) :
        (frames[i].cam # 0 /\ cams[frames[i].cam].url = "") =>
            /\ conn[i].kind = "none"
            /\ i <= Len(players) => players[i] = PyNone

\* C16: a failure of the backend while a stream is made, bound or played
\* leaves the stream in a state that a later tick of the health check
\* retries: once the first pass is over, every stream with a source has a
\* player, which the tick restarts when it is neither playing nor paused.
C16_FailedStaysRetriable ==
    \A i \in 1..Len(players) :
        (frames[i].cam # 0 /\ cams[frames[i].cam].url # "") =>
            Plays(i) \/ needs_reconnect(players[i])

\* C17: for each stream at most one connect attempt is in flight at any
\* time: an attempt begins only when the one before it has completed or its
\* player has been stopped.
C17_OneInFlight ==
    \A i \in 1..Len(in_flight) : in_flight[i] <= 1

\* A tick of the health check restarted a stream whose attempt was still
\* under way, and the new attempt is the only one in flight.
C17_Witness ==
    /\ conn[1].kind = "reconnect"
    /\ conn[1].state = "Opening"
    /\ players[1] # PyNone /\ players[1].state = "Opening"
    /\ in_flight[1] = 1

\* C20: once the first layout pass has run, self.players has one entry per
\* frame of the group, in the order of the frames: the entry of a camera
\* frame is None or a player of that camera's stream, and the entry of a
\* black tile is None; no attempt is ever made or recorded for a black tile.
C20_OneEntryPerFrame ==
    players # <<>> =>
        /\ Len(players) = Len(frames)
        /\ \A i \in 1..Len(frames) :
              /\ (i - 1) \in DOMAIN tile_map
              /\ frames[i].cam = 0 =>
                    /\ players[i] = PyNone
                    /\ conn[i].kind = "none"
                    /\ in_flight[i] = 0
                    /\ last_play_attempts[i] = 0
              /\ (frames[i].cam # 0 /\ players[i] # PyNone) =>
                    players[i].url = cams[frames[i].cam].url

\* A group of three cameras and one black tile after the layout passes that
\* were posted and a tick of the monitor that restarted the first camera; the
\* first attach of the second camera had failed.
C20_Witness ==
    /\ Len(cams) = 3
    /\ Len(players) = 4
    /\ frames[4].cam = 0 /\ players[4] = PyNone
    /\ conn[1].kind = "reconnect"
    /\ players[2] = PyNone
    /\ players[3] # PyNone
    /\ pending_layout = 0

(***************************************************************************)
(* Shutdown                                                                *)
(***************************************************************************)

\* The step is a call of closeEvent.
CloseStep == shutdown'.calls = shutdown.calls + 1

\* Every player of the list is stopped.
AllStopped(pl) == \A i \in 1..Len(pl) : pl[i] = PyNone \/ pl[i].state = "Stopped"

\* The group is as a call of closeEvent without failures leaves it.
ShutDown == closed /\ ~socket_connected /\ AllStopped(players)

\* C18: a call of closeEvent after the first raises nothing and leaves the
\* group shut down as the first did: the socket client was disconnected at
\* most once in all, the player list keeps its entries (none is released or
\* dropped), every player whose stop() did not fail is stopped, and a call
\* made on a group that is shut down changes nothing of it.
C18_ShutdownTwice ==
    [][(CloseStep /\ shutdown.calls >= 1) =>
          /\ closed' /\ shutdown'.disconnects <= 1
          /\ Len(players') = Len(players)
          /\ \A i \in 1..Len(players) :
                /\ (players'[i] = PyNone) = (players[i] = PyNone)
                /\ players[i] # PyNone =>
                      /\ players'[i].url = players[i].url
                      /\ players'[i].hwnd = players[i].hwnd
                      /\ i \notin shutdown'.failed => players'[i].state = "Stopped"
          /\ ShutDown =>
                UNCHANGED <<partVars, trackerVars, configVars, panelVars, sideVars, layoutVars, streamVars,
                            queueVars, now, histVars, next_tick, closed,
                            socket_connected, attemptVars, readVars>>]_vars

\* closeEvent ran twice on a group of two players, the second time after the
\* monitor had restarted the first player: both are stopped and the socket
\* client was disconnected once.
C18_Witness ==
    /\ shutdown.calls = 2
    /\ conn[1].kind = "reconnect" /\ conn[1].after_close
    /\ shutdown.disconnects = 1
    /\ shutdown.failed = {}
    /\ players[1] # PyNone /\ players[2] # PyNone
    /\ ShutDown

\* C19: closeEvent stops every player of the group: a stop() that fails, or
\* a failing disconnect of the socket client, leaves every other player
\* stopped.
C19_StopsTheRest ==
    [][CloseStep =>
          \A i \in 1..Len(players) :
             (players[i] # PyNone /\ i \notin shutdown'.failed)
                => players'[i].state = "Stopped"]_vars

\* The disconnect and the stop() of the first player failed; the second
\* player, which was not stopped before, is stopped.
C19_Witness ==
    /\ shutdown.calls = 1
    /\ shutdown.sock_failed
    /\ shutdown.failed = {1}
    /\ players[1].state \in {"Opening", "Playing"}
    /\ players[2] # PyNone /\ players[2].state = "Stopped"
    /\ in_flight[2] = 0

(***************************************************************************)
(* Concurrent read                                                         *)
(***************************************************************************)

\* C8: a read of the area totals during which one event was applied does not
\* fail and returns the totals of the tracker as it was before the event or
\* as it was after it.
C8_AtomicRead ==
    (read_log.done /\ read_log.events = 1) =>
        /\ ~read_log.raised
        /\ read_log.areas \in {get_area_counts(read_log.before).areas,
                               get_area_counts(read_log.after).areas}

=============================================================================
